---- MODULE Spec2Model ----
(***************************************************************************)
(* Benchmark metrics aggregation and reporting engine                      *)
(* (src/inference/benchmark/common/metrics.py): the metric record and its  *)
(* derived-metric computation, the collector and its summary, and the      *)
(* dual-sink (MLflow) recorder.                                            *)
(*                                                                         *)
(* Python floats are modelled as exact rationals <<n, d>> in lowest terms  *)
(* with d > 0; Optional[...] values are None == <<>> or the value itself   *)
(* (a rational), or <<s>> for an optional string s.                        *)
(***************************************************************************)
EXTENDS Integers, Sequences, FiniteSets, TLC

VARIABLES
    rec,            \* SpecRecord: the BenchmarkMetrics instance under test
    calls,          \* SpecRecord: compute_derived_metrics() calls made on rec
    phase,          \* "new" before the collector's constructor ran, then "ready"
    kind,           \* "plain" (MetricsCollector) or "mlflow" (MLflowMetricsCollector)
    metrics,        \* self.metrics: the sequence of collected records
    use_mlflow,     \* self.use_mlflow
    mlflow_tracker, \* self.mlflow_tracker is not None
    remote_runs,    \* run names of the runs created in the tracking server
    tmp_files,      \* experiment ids e whose /tmp/env_info_<e>.json exists
    last,           \* what the last operation did (trace, outcome)
    summary,        \* the 'summary' object last written by save_summary
    results_dir,    \* the results directory: file name -> content
    stdout,         \* what print_summary printed, line by line
    clock,          \* datetime.now(), in ticks of 1 / TicksPerSecond seconds
    snapshot,       \* SpecEnv: what collect_all_info() returned
    pc,             \* SpecMain: where offline_benchmark.main is
    main_env_info,  \* SpecMain: main's env_info dictionary
    env_file,       \* SpecMain: the content of env_info_<timestamp>.json
    captures,       \* SpecMain: collect_all_info() calls made so far
    waypoints,            \* WaypointController.waypoints
    current_waypoint_idx, \* WaypointController.current_waypoint_idx
    flight_mode,          \* WaypointController.flight_mode
    current_position      \* WaypointController.current_position

\* the state outside the collector and the record under test
\* the state of the WaypointController
droneVars == <<waypoints, current_waypoint_idx, flight_mode, current_position>>

restVars == <<results_dir, stdout, clock, snapshot, pc, main_env_info, env_file,
              captures, droneVars>>

vars == <<rec, calls, phase, kind, metrics, use_mlflow, mlflow_tracker,
          remote_runs, tmp_files, last, summary, restVars>>

---------------------------------------------------------------------------
(* Bounds of the model.                                                    *)

MaxCalls == 2
MaxRecords == 3
MaxSummaryRecords == 3
MaxSessionRecords == 2
MaxClock == 2
NumRuns == 2
MaxMergeFiles == 2
MaxWaypoints == 2

---------------------------------------------------------------------------
(* Exact arithmetic standing for float arithmetic.                         *)

None == <<>>

Abs(i) == IF i < 0 THEN -i ELSE i

RECURSIVE GCD(_, _)
GCD(a, b) == IF b = 0 THEN a ELSE GCD(b, a % b)

\* n / d in lowest terms, d # 0
Rat(n, d) ==
    LET g == GCD(Abs(n), Abs(d))
        s == IF d < 0 THEN -1 ELSE 1
    IN  <<(s * n) \div g, (s * d) \div g>>

FromInt(i) == <<i, 1>>
RMul(a, b) == Rat(a[1] * b[1], a[2] * b[2])
RDiv(a, b) == Rat(a[1] * b[2], a[2] * b[1])
RAdd(a, b) == Rat(a[1] * b[2] + b[1] * a[2], a[2] * b[2])
RLess(a, b) == a[1] * b[2] < b[1] * a[2]
RZero == FromInt(0)

\* Python truthiness of an Optional[float]: None and 0.0 are both falsy
TruthyFloat(x) == x # None /\ x # RZero
\* Python truthiness of an Optional[str]: None and "" are both falsy
TruthyStr(x) == x # None /\ x # <<"">>

---------------------------------------------------------------------------
(* BenchmarkMetrics: the dataclass, with its field defaults.               *)

\* the defaults of the dataclass's optional fields
FieldDefaults ==
    [ prefill_time          |-> None,
      decode_time           |-> None,
      first_token_latency   |-> None,
      actual_input_tokens   |-> 0,
      actual_output_tokens  |-> 0,
      tokens_per_second     |-> None,
      time_per_token        |-> None,
      inter_token_latency   |-> None,
      memory_used_mb        |-> None,
      peak_memory_mb        |-> None,
      cache_hit_rate        |-> None,
      error                 |-> None,
      notes                 |-> None ]

\* BenchmarkMetrics(**kw): the keyword arguments over the defaults
BenchmarkMetrics(kw) ==
    [f \in DOMAIN kw \cup DOMAIN FieldDefaults |->
        IF f \in DOMAIN kw THEN kw[f] ELSE FieldDefaults[f]]

\* the record the module builds in its self-test
SampleMetric ==
    BenchmarkMetrics(
        [ experiment_id         |-> "test_001",
          timestamp             |-> "2025-01-01T00:00:00",
          model_name            |-> "Qwen/Qwen3-0.6B-Instruct",
          instance_type         |-> "g5.xlarge",
          hardware_type         |-> "gpu",
          serving_mode          |-> "offline",
          batch_size            |-> 1,
          input_length          |-> 32,
          max_output_tokens     |-> 32,
          enable_prefix_caching |-> FALSE,
          temperature           |-> <<7, 10>>,
          top_p                 |-> <<9, 10>>,
          total_time            |-> <<5, 2>>,
          actual_input_tokens   |-> 32,
          actual_output_tokens  |-> 28 ])

\* faulty variant: time_per_token left in seconds (the * 1000 dropped)
ComputeDerivedMetricsSeconds(m) ==
    LET m1 == IF m.actual_output_tokens > 0 /\ RLess(RZero, m.total_time)
              THEN [m EXCEPT
                     !.tokens_per_second =
                         RDiv(FromInt(m.actual_output_tokens), m.total_time),
                     !.time_per_token =
                         RDiv(m.total_time, FromInt(m.actual_output_tokens))]
              ELSE m
    IN  IF TruthyFloat(m1.decode_time) /\ m1.actual_output_tokens > 1
        THEN [m1 EXCEPT !.inter_token_latency =
                 RDiv(RMul(m1.decode_time, FromInt(1000)),
                      FromInt(m1.actual_output_tokens - 1))]
        ELSE m1

\* faulty variant: total_time converted to milliseconds in place
ComputeDerivedMetricsInPlace(m) ==
    LET m1 == IF m.actual_output_tokens > 0 /\ RLess(RZero, m.total_time)
              THEN [m EXCEPT
                     !.tokens_per_second =
                         RDiv(FromInt(m.actual_output_tokens), m.total_time),
                     !.total_time = RMul(m.total_time, FromInt(1000)),
                     !.time_per_token =
                         RDiv(RMul(m.total_time, FromInt(1000)),
                              FromInt(m.actual_output_tokens))]
              ELSE m
    IN  IF TruthyFloat(m1.decode_time) /\ m1.actual_output_tokens > 1
        THEN [m1 EXCEPT !.inter_token_latency =
                 RDiv(RMul(m1.decode_time, FromInt(1000)),
                      FromInt(m1.actual_output_tokens - 1))]
        ELSE m1

\* BenchmarkMetrics.compute_derived_metrics
ComputeDerivedMetrics(m) ==
    LET m1 == IF m.actual_output_tokens > 0 /\ RLess(RZero, m.total_time)
              THEN [m EXCEPT
                     !.tokens_per_second =
                         RDiv(FromInt(m.actual_output_tokens), m.total_time),
                     !.time_per_token =
                         RDiv(RMul(m.total_time, FromInt(1000)),
                              FromInt(m.actual_output_tokens))]
              ELSE m
    IN  IF TruthyFloat(m1.decode_time) /\ m1.actual_output_tokens > 1
        THEN [m1 EXCEPT !.inter_token_latency =
                 RDiv(RMul(m1.decode_time, FromInt(1000)),
                      FromInt(m1.actual_output_tokens - 1))]
        ELSE m1

---------------------------------------------------------------------------
(* SpecRecord: one record, constructed from raw measurements, on which     *)
(* compute_derived_metrics() is called.                                    *)

TotalTimes == {<<-1, 1>>, <<0, 1>>, <<1, 2>>, <<2, 1>>, <<5, 2>>}
OutputTokens == {0, 1, 2, 10, 20}
DecodeTimes == {None, <<0, 1>>, <<1, 1>>, <<9, 5>>}

\* `last` before any operation ran
NoLast == [op |-> "none", events |-> <<>>, raised |-> FALSE, n_before |-> 0,
           id |-> "", env_info |-> "None", requested |-> FALSE,
           available |-> FALSE, arg |-> <<>>, returned |-> <<>>]

\* WaypointController.__init__
IdleDrone ==
    /\ waypoints = <<>>
    /\ current_waypoint_idx = 0
    /\ flight_mode = "IDLE"
    /\ current_position = <<0, 0, 0>>

\* nothing written, printed, probed or driven yet
IdleRest ==
    /\ IdleDrone
    /\ results_dir = <<>>
    /\ stdout = <<>>
    /\ clock = 0
    /\ snapshot = <<>>
    /\ pc = "idle"
    /\ main_env_info = <<>>
    /\ env_file = <<>>
    /\ captures = 0

IdleCollector ==
    /\ phase = "new"
    /\ kind = "plain"
    /\ metrics = <<>>
    /\ use_mlflow = FALSE
    /\ mlflow_tracker = FALSE
    /\ remote_runs = <<>>
    /\ tmp_files = {}
    /\ last = NoLast
    /\ summary = <<>>

collectorVars == <<phase, kind, metrics, use_mlflow, mlflow_tracker,
                   remote_runs, tmp_files, last, summary>>

InitRecord ==
    /\ \E tt \in TotalTimes, n \in OutputTokens, dt \in DecodeTimes :
          rec = [SampleMetric EXCEPT !.total_time = tt,
                                     !.actual_output_tokens = n,
                                     !.decode_time = dt]
    /\ calls = 0
    /\ IdleCollector
    /\ IdleRest

CallComputeDerivedMetrics ==
    /\ calls < MaxCalls
    /\ rec' = ComputeDerivedMetrics(rec)
    /\ calls' = calls + 1
    /\ UNCHANGED collectorVars
    /\ UNCHANGED restVars

NextRecord == CallComputeDerivedMetrics

SpecRecord == InitRecord /\ [][NextRecord]_vars

---------------------------------------------------------------------------
(* Claims about compute_derived_metrics.                                   *)

\* C1: after compute_derived_metrics() returns, tokens_per_second =
\* actual_output_tokens / total_time and time_per_token = total_time * 1000 /
\* actual_output_tokens when actual_output_tokens > 0 and total_time > 0, and
\* both are None when actual_output_tokens = 0 or total_time <= 0.
C1_DerivedThroughput ==
    calls >= 1 =>
        IF rec.actual_output_tokens > 0 /\ RLess(RZero, rec.total_time)
        THEN /\ RMul(rec.tokens_per_second, rec.total_time)
                    = FromInt(rec.actual_output_tokens)
             /\ RMul(rec.time_per_token, FromInt(rec.actual_output_tokens))
                    = RMul(rec.total_time, FromInt(1000))
        ELSE /\ rec.tokens_per_second = None
             /\ rec.time_per_token = None

\* the spec's example: total_time = 2.0, actual_output_tokens = 20 gives
\* tokens_per_second = 10.0 and time_per_token = 100.0
C1_Witness ==
    /\ calls >= 1
    /\ rec.total_time = <<2, 1>>
    /\ rec.actual_output_tokens = 20
    /\ rec.tokens_per_second = <<10, 1>>
    /\ rec.time_per_token = <<100, 1>>

\* C2: after compute_derived_metrics() returns, inter_token_latency =
\* decode_time * 1000 / (actual_output_tokens - 1) whenever decode_time is not
\* None (the value 0 included) and actual_output_tokens > 1, and it is None
\* whenever decode_time is None or actual_output_tokens <= 1.
C2_InterTokenLatency ==
    calls >= 1 =>
        IF rec.decode_time # None /\ rec.actual_output_tokens > 1
        THEN rec.inter_token_latency # None
             /\ RMul(rec.inter_token_latency,
                     FromInt(rec.actual_output_tokens - 1))
                    = RMul(rec.decode_time, FromInt(1000))
        ELSE rec.inter_token_latency = None

DerivedOf(r) ==
    <<r.tokens_per_second, r.time_per_token, r.inter_token_latency>>

\* C14: a second compute_derived_metrics() call on the same record, its raw
\* fields untouched in between, leaves tokens_per_second, time_per_token and
\* inter_token_latency as the first call left them.
C14_RecomputeIsIdempotent ==
    [][calls >= 1 => DerivedOf(rec') = DerivedOf(rec)]_vars

\* a record with all three derived fields set, computed twice
C14_Witness ==
    /\ calls = 2
    /\ rec.tokens_per_second # None
    /\ rec.time_per_token # None
    /\ rec.inter_token_latency # None

---------------------------------------------------------------------------
(* The tracking sink.  Each call the code makes to mlflow or to the file   *)
(* system for the sink is one event <<call, raises>>; `fail` names the     *)
(* call that raises an Exception when it is reached ("none": no call).     *)

Ev(call) == [call |-> call, raises |-> FALSE]
EvRaise(call) == [call |-> call, raises |-> TRUE]

\* the calls that go to the tracking server
SinkCalls == {"set_tracking_uri", "MlflowClient", "get_experiment_by_name",
              "create_experiment", "set_experiment", "start_run", "log_params",
              "log_metrics", "set_tags", "set_tag_error", "set_tag_notes",
              "log_artifact", "end_run"}

Called(events, call) == \E i \in 1..Len(events) : events[i].call = call
Succeeded(events, call) ==
    \E i \in 1..Len(events) : events[i].call = call /\ ~events[i].raises
Raised(events) == \E i \in 1..Len(events) : events[i].raises
Count(events, call) ==
    Cardinality({i \in 1..Len(events) : events[i].call = call})

\* the calls of `plan` made until `fail` raises
RunPlan(plan, fail) ==
    LET hit == {i \in 1..Len(plan) : plan[i] = fail}
        k == IF hit = {} THEN 0 ELSE CHOOSE i \in hit : \A j \in hit : i <= j
    IN  IF k = 0
        THEN [i \in 1..Len(plan) |-> Ev(plan[i])]
        ELSE [i \in 1..k |-> IF i = k THEN EvRaise(plan[i]) ELSE Ev(plan[i])]

\* env_info: None, an empty dict or a snapshot; only the last is truthy
EnvInfos == {"None", "{}", "snapshot"}
TruthyEnv(env_info) == env_info = "snapshot"

\* MLflowTracker.__init__ with mlflow installed: the calls it makes
TrackerInitPlan(exists) ==
    <<"set_tracking_uri", "MlflowClient", "get_experiment_by_name">>
    \o (IF exists THEN <<>> ELSE <<"create_experiment">>)
    \o <<"set_experiment">>

\* MLflowTracker.__init__: [events, exc]
MLflowTrackerInit(available, exists, fail) ==
    IF ~available
    THEN [events |-> <<>>, exc |-> TRUE]     \* raise ImportError
    ELSE LET ev == RunPlan(TrackerInitPlan(exists), fail)
         IN  [events |-> ev, exc |-> Raised(ev)]

\* faulty variant: log_metric that relies on the caller for the derived metrics
LogMetricPlanNoCompute(m, env_info) ==
    <<"start_run", "log_params", "log_metrics", "set_tags">>
    \o (IF TruthyStr(m.error) THEN <<"set_tag_error">> ELSE <<>>)
    \o (IF TruthyStr(m.notes) THEN <<"set_tag_notes">> ELSE <<>>)
    \o (IF TruthyEnv(env_info)
        THEN <<"open_tmp", "json_dump", "log_artifact", "os_remove">>
        ELSE <<>>)
    \o <<"end_run", "print">>

\* MLflowTracker.log_metric: the calls it makes when nothing raises
LogMetricPlan(m, env_info) ==
    <<"compute_derived_metrics", "start_run", "log_params", "log_metrics",
      "set_tags">>
    \o (IF TruthyStr(m.error) THEN <<"set_tag_error">> ELSE <<>>)
    \o (IF TruthyStr(m.notes) THEN <<"set_tag_notes">> ELSE <<>>)
    \o (IF TruthyEnv(env_info)
        THEN <<"open_tmp", "json_dump", "log_artifact", "os_remove">>
        ELSE <<>>)
    \o <<"end_run", "print">>

\* MLflowTracker.log_metric: [events, exc, metric].  An exception inside the
\* `with mlflow.start_run(...)` block ends the run on the way out.
LogMetric(m, env_info, fail) ==
    LET ev == RunPlan(LogMetricPlan(m, env_info), fail)
        inBlock == Raised(ev) /\ Succeeded(ev, "start_run")
                   /\ ~Called(ev, "end_run")
    IN  [events |-> IF inBlock THEN Append(ev, Ev("end_run")) ELSE ev,
         exc    |-> Raised(ev),
         metric |-> IF Called(ev, "compute_derived_metrics")
                    THEN ComputeDerivedMetrics(m) ELSE m]

\* the temp files after the events of a log_metric call for experiment id
TmpFilesAfter(files, events, id) ==
    IF Succeeded(events, "os_remove") THEN files \ {id}
    ELSE IF Succeeded(events, "open_tmp") THEN files \cup {id}
    ELSE files

\* faulty variant: a failed call is tried again in a second run
RemoteRunsAfterRetry(runs, events, id) ==
    IF Succeeded(events, "start_run")
    THEN IF Raised(events) THEN Append(Append(runs, id), id)
         ELSE Append(runs, id)
    ELSE runs

\* the remote runs after the events of a log_metric call for experiment id
RemoteRunsAfter(runs, events, id) ==
    IF Succeeded(events, "start_run") THEN Append(runs, id) ELSE runs

---------------------------------------------------------------------------
(* The collectors.                                                         *)

\* MetricsCollector.add_metric: [events, exc, metric]
BaseAddMetric(m) ==
    [events |-> <<Ev("compute_derived_metrics"), Ev("append")>>,
     exc    |-> FALSE,
     metric |-> ComputeDerivedMetrics(m)]

\* faulty variant: the sink's exception is not caught
MLflowAddMetricNoCatch(enabled, m, env_info, fail) ==
    LET base == BaseAddMetric(m)
    IN  IF enabled
        THEN LET lm == LogMetric(base.metric, env_info, fail)
             IN  [events |-> base.events \o lm.events,
                  exc    |-> lm.exc,
                  metric |-> lm.metric]
        ELSE base

\* faulty variant: the record is forwarded before it is appended
MLflowAddMetricRemoteFirst(enabled, m, env_info, fail) ==
    LET base == BaseAddMetric(m)
    IN  IF enabled
        THEN LET lm == LogMetric(m, env_info, fail)
             IN  [events |-> lm.events
                             \o (IF lm.exc THEN <<Ev("print_failure")>> ELSE <<>>)
                             \o base.events,
                  exc    |-> FALSE,
                  metric |-> base.metric]
        ELSE base

\* MLflowMetricsCollector.add_metric: [events, exc, metric]; `enabled` is
\* self.use_mlflow and self.mlflow_tracker
MLflowAddMetric(enabled, m, env_info, fail) ==
    LET base == BaseAddMetric(m)
    IN  IF enabled
        THEN LET lm == LogMetric(base.metric, env_info, fail)
             IN  [events |-> base.events \o lm.events
                             \o (IF lm.exc THEN <<Ev("print_failure")>> ELSE <<>>),
                  exc    |-> FALSE,      \* except Exception: print
                  metric |-> lm.metric]
        ELSE base

\* faulty variant: a failed connection setup propagates out of the constructor
MLflowCollectorInitNoCatch(requested, available, exists, fail) ==
    LET wanted == requested /\ available
    IN  IF wanted
        THEN LET t == MLflowTrackerInit(available, exists, fail)
             IN  [events     |-> t.events,
                  exc        |-> t.exc,
                  use_mlflow |-> TRUE,
                  tracker    |-> ~t.exc]
        ELSE [events |-> <<>>, exc |-> FALSE, use_mlflow |-> FALSE,
              tracker |-> FALSE]

\* MLflowMetricsCollector.__init__: [events, exc, use_mlflow, tracker]
MLflowCollectorInit(requested, available, exists, fail) ==
    LET wanted == requested /\ available
    IN  IF wanted
        THEN LET t == MLflowTrackerInit(available, exists, fail)
             IN  [events     |-> t.events
                                 \o (IF t.exc THEN <<Ev("print_failure")>>
                                     ELSE <<>>),
                  exc        |-> FALSE,      \* except Exception: fall back
                  use_mlflow |-> ~t.exc,
                  tracker    |-> ~t.exc]
        ELSE [events |-> <<>>, exc |-> FALSE, use_mlflow |-> FALSE,
              tracker |-> FALSE]

---------------------------------------------------------------------------
(* MetricsCollector.save_summary.                                          *)

\* str() of a bool in an f-string
PyBool(b) == IF b THEN "True" ELSE "False"

\* faulty variant: the grouping key without the prefix-caching flag
GroupKeyNoCache(m) ==
    m.instance_type \o "_" \o m.serving_mode
    \o "_bs" \o ToString(m.batch_size) \o "_in" \o ToString(m.input_length)
    \o "_out" \o ToString(m.max_output_tokens)

\* the f-string key of save_summary
GroupKey(m) ==
    m.instance_type \o "_" \o m.serving_mode
    \o "_bs" \o ToString(m.batch_size) \o "_in" \o ToString(m.input_length)
    \o "_out" \o ToString(m.max_output_tokens)
    \o "_cache" \o PyBool(m.enable_prefix_caching)

\* groups[key]: the records of the key, in insertion order
Group(ms, key) == SelectSeq(ms, LAMBDA m : GroupKey(m) = key)

\* [m.<field> for m in metrics_list if m.<field>]
TruthyValues(ms, field) ==
    LET sel == SelectSeq(ms, LAMBDA m : TruthyFloat(m[field]))
    IN  [i \in 1..Len(sel) |-> sel[i][field]]

RECURSIVE Sum(_)
Sum(values) ==
    IF values = <<>> THEN RZero ELSE RAdd(Head(values), Sum(Tail(values)))

Min(values) ==
    CHOOSE v \in {values[i] : i \in 1..Len(values)} :
        \A i \in 1..Len(values) : ~RLess(values[i], v)

Max(values) ==
    CHOOSE v \in {values[i] : i \in 1..Len(values)} :
        \A i \in 1..Len(values) : ~RLess(v, values[i])

NullStats == [mean |-> None, min |-> None, max |-> None]

\* faulty variant: an empty list of values reported as zeros
StatsZeroWhenEmpty(values) ==
    IF values # <<>>
    THEN [mean |-> RDiv(Sum(values), FromInt(Len(values))),
          min  |-> Min(values),
          max  |-> Max(values)]
    ELSE [mean |-> RZero, min |-> RZero, max |-> RZero]

\* {'mean': sum(v) / len(v) if v else None, 'min': ..., 'max': ...}
Stats(values) ==
    IF values # <<>>
    THEN [mean |-> RDiv(Sum(values), FromInt(Len(values))),
          min  |-> Min(values),
          max  |-> Max(values)]
    ELSE NullStats

\* summary[key] for the records metrics_list of one key
SummaryEntry(metrics_list) ==
    [ count                   |-> Len(metrics_list),
      instance_type           |-> metrics_list[1].instance_type,
      serving_mode            |-> metrics_list[1].serving_mode,
      batch_size              |-> metrics_list[1].batch_size,
      input_length            |-> metrics_list[1].input_length,
      max_output_tokens       |-> metrics_list[1].max_output_tokens,
      enable_prefix_caching   |-> metrics_list[1].enable_prefix_caching,
      tokens_per_second       |->
          Stats(TruthyValues(metrics_list, "tokens_per_second")),
      time_per_token_ms       |->
          Stats(TruthyValues(metrics_list, "time_per_token")),
      first_token_latency_sec |->
          Stats(TruthyValues(metrics_list, "first_token_latency")) ]

\* the 'summary' object save_summary builds from self.metrics
BuildSummary(ms) ==
    LET keys == {GroupKey(ms[i]) : i \in 1..Len(ms)}
    IN  [key \in keys |-> SummaryEntry(Group(ms, key))]

---------------------------------------------------------------------------
(* Spec: a session on one collector, plain or dual-sink.                   *)

\* the records handed to add_metric
Runs ==
    { [SampleMetric EXCEPT !.experiment_id = "exp_a",
                           !.total_time = <<2, 1>>,
                           !.actual_output_tokens = 20,
                           !.notes = <<"scenario=short, run=1, warmup=False">>],
      [SampleMetric EXCEPT !.experiment_id = "exp_a",
                           !.batch_size = 4,
                           !.enable_prefix_caching = TRUE,
                           !.decode_time = <<9, 5>>,
                           !.first_token_latency = <<1, 2>>,
                           !.actual_output_tokens = 10],
      [SampleMetric EXCEPT !.experiment_id = "exp_b",
                           !.instance_type = "inf2.xlarge",
                           !.total_time = <<1, 2>>,
                           !.actual_output_tokens = 0,
                           !.error = <<"OOM">>,
                           !.notes = <<"">>] }

\* where the tracking server can fail during construction and forwarding
InitFailPoints == {"none", "set_tracking_uri", "MlflowClient",
                   "get_experiment_by_name", "create_experiment",
                   "set_experiment"}
LogFailPoints == {"none", "start_run", "log_params", "log_metrics", "set_tags",
                  "set_tag_error", "set_tag_notes", "open_tmp", "json_dump",
                  "log_artifact", "os_remove", "end_run"}

Init ==
    /\ rec = SampleMetric
    /\ calls = 0
    /\ IdleCollector
    /\ IdleRest

\* MetricsCollector.__init__
NewMetricsCollector ==
    /\ phase = "new"
    /\ phase' = "ready"
    /\ kind' = "plain"
    /\ metrics' = <<>>
    /\ use_mlflow' = FALSE
    /\ mlflow_tracker' = FALSE
    /\ last' = [NoLast EXCEPT !.op = "init"]
    /\ UNCHANGED <<rec, calls, remote_runs, tmp_files, summary>>
    /\ UNCHANGED restVars

\* MLflowMetricsCollector.__init__(use_mlflow = requested), with the module's
\* MLFLOW_AVAILABLE = available and the experiment existing in the server or not
NewMLflowMetricsCollector ==
    /\ phase = "new"
    /\ \E requested \in BOOLEAN, available \in BOOLEAN, exists \in BOOLEAN,
          fail \in InitFailPoints :
          LET r == MLflowCollectorInit(requested, available, exists, fail)
          IN  /\ phase' = IF r.exc THEN "failed" ELSE "ready"
              /\ kind' = "mlflow"
              /\ metrics' = <<>>
              /\ use_mlflow' = r.use_mlflow
              /\ mlflow_tracker' = r.tracker
              /\ last' = [NoLast EXCEPT !.op = "init", !.events = r.events,
                                        !.raised = r.exc,
                                        !.requested = requested,
                                        !.available = available]
    /\ UNCHANGED <<rec, calls, remote_runs, tmp_files, summary>>
    /\ UNCHANGED restVars

\* MetricsCollector.add_metric(m)
AddMetric ==
    /\ phase = "ready"
    /\ kind = "plain"
    /\ Len(metrics) < MaxRecords
    /\ \E m \in Runs :
          LET r == BaseAddMetric(m)
          IN  /\ metrics' = IF Called(r.events, "append")
                            THEN Append(metrics, r.metric) ELSE metrics
              /\ last' = [NoLast EXCEPT !.op = "add_metric",
                                        !.events = r.events,
                                        !.raised = r.exc,
                                        !.n_before = Len(metrics),
                                        !.id = m.experiment_id]
    /\ UNCHANGED <<rec, calls, phase, kind, use_mlflow, mlflow_tracker,
                   remote_runs, tmp_files, summary>>
    /\ UNCHANGED restVars

\* MLflowMetricsCollector.add_metric(m, env_info)
AddMetricMLflow ==
    /\ phase = "ready"
    /\ kind = "mlflow"
    /\ Len(metrics) < MaxRecords
    /\ \E m \in Runs, env_info \in EnvInfos, fail \in LogFailPoints :
          LET r == MLflowAddMetric(use_mlflow /\ mlflow_tracker, m, env_info,
                                   fail)
          IN  /\ metrics' = IF Called(r.events, "append")
                            THEN Append(metrics, r.metric) ELSE metrics
              /\ remote_runs' =
                     RemoteRunsAfter(remote_runs, r.events, m.experiment_id)
              /\ tmp_files' =
                     TmpFilesAfter(tmp_files, r.events, m.experiment_id)
              /\ last' = [NoLast EXCEPT !.op = "add_metric",
                                        !.events = r.events,
                                        !.raised = r.exc,
                                        !.n_before = Len(metrics),
                                        !.id = m.experiment_id,
                                        !.env_info = env_info]
    /\ UNCHANGED <<rec, calls, phase, kind, use_mlflow, mlflow_tracker,
                   summary>>
    /\ UNCHANGED restVars

Next ==
    \/ NewMetricsCollector
    \/ NewMLflowMetricsCollector
    \/ AddMetric
    \/ AddMetricMLflow

Spec == Init /\ [][Next]_vars

---------------------------------------------------------------------------
(* Claims about the dual-sink recorder.                                    *)

DualSinkAdd == kind = "mlflow" /\ last.op = "add_metric"

\* C3: every add_metric call on the dual-sink recorder returns normally and
\* grows the local record sequence by exactly one, whether the sink is
\* disabled, accepts the record or raises at any step of forwarding.
C3_AddMetricSurvivesSink ==
    DualSinkAdd => /\ ~last.raised
                   /\ Len(metrics) = last.n_before + 1

\* the sink raised during forwarding and the record is in the local sequence
C3_Witness ==
    /\ DualSinkAdd
    /\ Raised(last.events)
    /\ ~last.raised
    /\ Len(metrics) = last.n_before + 1

\* C4: in the dual-sink add_metric the local append happens before any call
\* to the remote sink, and the sink is called only when use_mlflow is true.
C4_LocalAppendFirst ==
    DualSinkAdd =>
        \A i \in 1..Len(last.events) :
            last.events[i].call \in SinkCalls =>
                /\ use_mlflow
                /\ \E j \in 1..(i - 1) : last.events[j].call = "append"

\* a call that appended locally and then reached the sink
C4_Witness ==
    /\ DualSinkAdd
    /\ use_mlflow
    /\ Called(last.events, "append")
    /\ Succeeded(last.events, "log_metrics")

\* C5: constructing the dual-sink recorder never raises because of the sink:
\* when connection setup throws, use_mlflow is false; when it succeeds and the
\* sink was requested, use_mlflow is true.
C5_ConstructionDegrades ==
    (kind = "mlflow" /\ last.op = "init") =>
        /\ ~last.raised
        /\ phase = "ready"
        /\ Raised(last.events) => ~use_mlflow
        /\ (last.requested /\ Succeeded(last.events, "set_experiment"))
               => use_mlflow

\* connection setup threw and the recorder stands, local-only
C5_Witness ==
    /\ kind = "mlflow"
    /\ last.op = "init"
    /\ last.requested
    /\ Raised(last.events)
    /\ phase = "ready"
    /\ ~use_mlflow

\* C6: when an environment snapshot is supplied, the temporary file written
\* for it no longer exists after add_metric returns, whether the upload
\* succeeds or the upload or a later step raises.
C6_TempFileRemoved ==
    (DualSinkAdd /\ Succeeded(last.events, "open_tmp")) =>
        last.id \notin tmp_files

\* C7: every record ingested through add_metric, on the plain collector and
\* on the dual-sink recorder alike, has compute_derived_metrics invoked on it
\* exactly once during ingestion.
C7_ComputedExactlyOnce ==
    last.op = "add_metric" =>
        Count(last.events, "compute_derived_metrics") = 1

\* C7 as amended: exactly once on the plain collector and on the dual-sink
\* recorder with the sink disabled, exactly twice on the dual-sink recorder
\* with the sink enabled (add_metric's own call, then log_metric's).
C7_ComputedOncePerLayer ==
    last.op = "add_metric" =>
        Count(last.events, "compute_derived_metrics")
            = IF kind = "mlflow" /\ use_mlflow /\ mlflow_tracker THEN 2 ELSE 1

\* a record forwarded to the sink, computed by both layers
C7_Witness ==
    /\ DualSinkAdd
    /\ use_mlflow
    /\ Count(last.events, "compute_derived_metrics") = 2

---------------------------------------------------------------------------
(* SpecSummary: a plain collector fed with records of several              *)
(* configurations and measurements, and summarised.                        *)

\* (instance_type, serving_mode, batch_size, input_length, max_output_tokens,
\* enable_prefix_caching)
SummaryConfigs ==
    { <<"g5.xlarge", "offline", 1, 12, 32, FALSE>>,
      <<"g5.xlarge", "offline", 1, 12, 32, TRUE>>,
      <<"g5.xlarge", "offline", 11, 2, 32, FALSE>>,
      <<"g5.xlarge_offline", "online", 1, 12, 32, FALSE>> }

\* (total_time, actual_output_tokens, first_token_latency)
SummaryMeasurements ==
    { <<<<2, 1>>, 20, None>>,
      <<<<2, 1>>, 0, <<0, 1>>>>,
      <<<<5, 2>>, 10, <<1, 2>>>> }

SummaryRuns ==
    { [SampleMetric EXCEPT !.experiment_id = "exp",
                           !.instance_type = c[1],
                           !.serving_mode = c[2],
                           !.batch_size = c[3],
                           !.input_length = c[4],
                           !.max_output_tokens = c[5],
                           !.enable_prefix_caching = c[6],
                           !.total_time = x[1],
                           !.actual_output_tokens = x[2],
                           !.first_token_latency = x[3]] :
        c \in SummaryConfigs, x \in SummaryMeasurements }

InitSummary ==
    /\ rec = SampleMetric
    /\ calls = 0
    /\ phase = "ready"
    /\ kind = "plain"
    /\ metrics = <<>>
    /\ use_mlflow = FALSE
    /\ mlflow_tracker = FALSE
    /\ remote_runs = <<>>
    /\ tmp_files = {}
    /\ last = [NoLast EXCEPT !.op = "init"]
    /\ summary = <<>>
    /\ IdleRest

\* MetricsCollector.add_metric(m)
AddMetricForSummary ==
    /\ phase = "ready"
    /\ kind = "plain"
    /\ Len(metrics) < MaxSummaryRecords
    /\ \E m \in SummaryRuns :
          LET r == BaseAddMetric(m)
          IN  /\ metrics' = IF Called(r.events, "append")
                            THEN Append(metrics, r.metric) ELSE metrics
              /\ last' = [NoLast EXCEPT !.op = "add_metric",
                                        !.events = r.events,
                                        !.raised = r.exc,
                                        !.n_before = Len(metrics),
                                        !.id = m.experiment_id]
    /\ UNCHANGED <<rec, calls, phase, kind, use_mlflow, mlflow_tracker,
                   remote_runs, tmp_files, summary>>
    /\ UNCHANGED restVars

\* MetricsCollector.save_summary(filename); the write of the file succeeds or
\* open() raises OSError, which save_summary does not catch
SaveSummary ==
    /\ phase = "ready"
    /\ \E io_error \in BOOLEAN :
          /\ summary' = IF io_error THEN summary ELSE BuildSummary(metrics)
          /\ last' = [NoLast EXCEPT !.op = "save_summary",
                                    !.events = IF io_error
                                               THEN <<EvRaise("open")>>
                                               ELSE <<Ev("open"),
                                                      Ev("json_dump"),
                                                      Ev("print")>>,
                                    !.raised = io_error,
                                    !.n_before = Len(metrics)]
    /\ UNCHANGED <<rec, calls, phase, kind, metrics, use_mlflow,
                   mlflow_tracker, remote_runs, tmp_files>>
    /\ UNCHANGED restVars

NextSummary ==
    \/ AddMetricForSummary
    \/ SaveSummary

SpecSummary == InitSummary /\ [][NextSummary]_vars

---------------------------------------------------------------------------
(* Claims about save_summary.                                              *)

\* save_summary was the last operation and wrote its file
Summarised == last.op = "save_summary" /\ ~last.raised

ConfigOf(r) == <<r.instance_type, r.serving_mode, r.batch_size,
                 r.input_length, r.max_output_tokens, r.enable_prefix_caching>>

ConfigsPresent == {ConfigOf(metrics[i]) : i \in 1..Len(metrics)}

RecordsOf(config) == {i \in 1..Len(metrics) : ConfigOf(metrics[i]) = config}

EntriesOf(config) == {k \in DOMAIN summary : ConfigOf(summary[k]) = config}

\* C8: save_summary produces exactly one entry per distinct six-field
\* configuration tuple present among the records, whose count is the number
\* of records with exactly that tuple; records of different tuples are never
\* merged into one entry.
C8_OneEntryPerConfiguration ==
    Summarised =>
        /\ Cardinality(DOMAIN summary) = Cardinality(ConfigsPresent)
        /\ \A c \in ConfigsPresent :
              /\ Cardinality(EntriesOf(c)) = 1
              /\ \A k \in EntriesOf(c) :
                    summary[k].count = Cardinality(RecordsOf(c))

\* three records of two configurations, summarised in two entries
C8_Witness ==
    /\ Summarised
    /\ Len(metrics) = 3
    /\ Cardinality(ConfigsPresent) = 2
    /\ Cardinality(DOMAIN summary) = 2
    /\ \E k \in DOMAIN summary : summary[k].count = 2

\* the values of a field that are not None, among the records of a key
NonNullValues(key, field) ==
    LET sel == SelectSeq(metrics, LAMBDA m : GroupKey(m) = key
                                             /\ m[field] # None)
    IN  [i \in 1..Len(sel) |-> sel[i][field]]

\* mean, min and max of `values` agree with the reported `stats`
StatsOver(stats, values) ==
    IF values = <<>>
    THEN stats = NullStats
    ELSE /\ stats.mean # None
         /\ RMul(stats.mean, FromInt(Len(values))) = Sum(values)
         /\ \E i \in 1..Len(values) : stats.min = values[i]
         /\ \A i \in 1..Len(values) : ~RLess(values[i], stats.min)
         /\ \E i \in 1..Len(values) : stats.max = values[i]
         /\ \A i \in 1..Len(values) : ~RLess(stats.max, values[i])

\* C9: for every group and each of tokens_per_second, time_per_token and
\* first_token_latency, the reported mean, min and max are taken over exactly
\* the records of the group whose value is not None, the value 0 included.
C9_StatsOverNonNull ==
    Summarised =>
        \A k \in DOMAIN summary :
            /\ StatsOver(summary[k].tokens_per_second,
                         NonNullValues(k, "tokens_per_second"))
            /\ StatsOver(summary[k].time_per_token_ms,
                         NonNullValues(k, "time_per_token"))
            /\ StatsOver(summary[k].first_token_latency_sec,
                         NonNullValues(k, "first_token_latency"))

AllNone(key, field) == NonNullValues(key, field) = <<>>

\* C10: save_summary does not raise because a metric has no values: for every
\* group in which all values of a metric are None the entry reports mean, min
\* and max of that metric as null, and the metrics of the group that have
\* values are still reported.
SomeValue(key, field) ==
    \E i \in 1..Len(metrics) :
        GroupKey(metrics[i]) = key /\ TruthyFloat(metrics[i][field])

Reported(stats) == stats.mean # None /\ stats.min # None /\ stats.max # None

\* the summary's name of a metric and the record's
SummaryMetrics == { <<"tokens_per_second", "tokens_per_second">>,
                    <<"time_per_token_ms", "time_per_token">>,
                    <<"first_token_latency_sec", "first_token_latency">> }

---------------------------------------------------------------------------
(* Strings and time stamps.                                                *)

\* ord(c) of the characters the records' strings are made of
CodePoint ==
    "-" :> 45 @@ "." :> 46 @@
    "0" :> 48 @@ "1" :> 49 @@ "2" :> 50 @@ "3" :> 51 @@ "4" :> 52 @@
    "5" :> 53 @@ "6" :> 54 @@ "7" :> 55 @@ "8" :> 56 @@ "9" :> 57 @@
    "_" :> 95 @@
    "a" :> 97 @@ "b" :> 98 @@ "c" :> 99 @@ "d" :> 100 @@ "e" :> 101 @@
    "f" :> 102 @@ "g" :> 103 @@ "h" :> 104 @@ "i" :> 105 @@ "j" :> 106 @@
    "k" :> 107 @@ "l" :> 108 @@ "m" :> 109 @@ "n" :> 110 @@ "o" :> 111 @@
    "p" :> 112 @@ "q" :> 113 @@ "r" :> 114 @@ "s" :> 115 @@ "t" :> 116 @@
    "u" :> 117 @@ "v" :> 118 @@ "w" :> 119 @@ "x" :> 120 @@ "y" :> 121 @@
    "z" :> 122

Ord(s, i) == CodePoint[SubSeq(s, i, i)]

\* a < b for two str: the first differing character decides, a proper prefix
\* is smaller
StrLess(a, b) ==
    \E i \in 1..Len(b) :
        /\ Len(a) >= i - 1
        /\ SubSeq(a, 1, i - 1) = SubSeq(b, 1, i - 1)
        /\ \/ Len(a) = i - 1
           \/ Ord(a, i) < Ord(b, i)

\* the clock's resolution: ticks in one second
TicksPerSecond == 2

\* faulty variant: the fraction of the second is part of the time stamp
StrftimeWithFraction(now) ==
    "19700101_" \o ToString(now \div TicksPerSecond) \o "_"
        \o ToString(now % TicksPerSecond)

\* datetime.now().strftime("%Y%m%d_%H%M%S"): the time to the whole second
Strftime(now) == "19700101_" \o ToString(now \div TicksPerSecond)

\* datetime.now().isoformat(): the time with its fraction of a second
IsoFormat(now) ==
    "1970-01-01T" \o ToString(now \div TicksPerSecond) \o "."
        \o ToString(now % TicksPerSecond)

---------------------------------------------------------------------------
(* JSON: json.dump of a value and json.load of what was written.           *)

\* the annotation of each field of BenchmarkMetrics
FieldTypes ==
    [ experiment_id         |-> "str",
      timestamp             |-> "str",
      model_name            |-> "str",
      instance_type         |-> "str",
      hardware_type         |-> "str",
      serving_mode          |-> "str",
      batch_size            |-> "int",
      input_length          |-> "int",
      max_output_tokens     |-> "int",
      enable_prefix_caching |-> "bool",
      temperature           |-> "float",
      top_p                 |-> "float",
      total_time            |-> "float",
      prefill_time          |-> "Optional[float]",
      decode_time           |-> "Optional[float]",
      first_token_latency   |-> "Optional[float]",
      actual_input_tokens   |-> "int",
      actual_output_tokens  |-> "int",
      tokens_per_second     |-> "Optional[float]",
      time_per_token        |-> "Optional[float]",
      inter_token_latency   |-> "Optional[float]",
      memory_used_mb        |-> "Optional[float]",
      peak_memory_mb        |-> "Optional[float]",
      cache_hit_rate        |-> "Optional[float]",
      error                 |-> "Optional[str]",
      notes                 |-> "Optional[str]" ]

\* the JSON token json.dump writes for a value of the given annotation
JsonEncode(v, type) ==
    CASE type = "str" -> <<"string", v>>
      [] type = "int" -> <<"int", v>>
      [] type = "bool" -> IF v THEN <<"true">> ELSE <<"false">>
      [] type = "float" -> <<"float", v>>
      [] type = "Optional[float]" ->
             IF v = None THEN <<"null">> ELSE <<"float", v>>
      [] type = "Optional[str]" ->
             IF v = None THEN <<"null">> ELSE <<"string", v[1]>>

\* the value json.load gives for a token, in the representation of the
\* annotation
JsonDecode(token, type) ==
    CASE token[1] = "null" -> None
      [] token[1] = "true" -> TRUE
      [] token[1] = "false" -> FALSE
      [] token[1] = "string" ->
             IF type = "Optional[str]" THEN <<token[2]>> ELSE token[2]
      [] OTHER -> token[2]

\* the annotations of the fields that may be None
OptionalTypes == {"Optional[float]", "Optional[str]"}

\* faulty variant: the fields that are None are left out
ToDictOmitNone(m) ==
    [f \in {g \in DOMAIN FieldTypes :
               ~(FieldTypes[g] \in OptionalTypes /\ m[g] = None)} |-> m[f]]

\* BenchmarkMetrics.to_dict: asdict(self), field name -> value
ToDict(m) == [f \in DOMAIN FieldTypes |-> m[f]]

JsonEncodeDict(d) == [f \in DOMAIN d |-> JsonEncode(d[f], FieldTypes[f])]
JsonDecodeDict(o) == [f \in DOMAIN o |-> JsonDecode(o[f], FieldTypes[f])]

\* faulty variant: the records of failed runs are left out of the results
SaveToJsonDataWithoutErrors(ms, now) ==
    [metadata |-> [total_runs   |-> <<"int", Len(ms)>>,
                   generated_at |-> <<"string", IsoFormat(now)>>],
     results  |-> LET ok == SelectSeq(ms, LAMBDA m : m.error = None)
                  IN  [i \in 1..Len(ok) |-> JsonEncodeDict(ToDict(ok[i]))]]

\* the document save_to_json dumps
SaveToJsonData(ms, now) ==
    [metadata |-> [total_runs   |-> <<"int", Len(ms)>>,
                   generated_at |-> <<"string", IsoFormat(now)>>],
     results  |-> [i \in 1..Len(ms) |-> JsonEncodeDict(ToDict(ms[i]))]]

\* json.load of a completely written results file
JsonLoad(file) ==
    [metadata |-> [total_runs   |-> file.data.metadata.total_runs[2],
                   generated_at |-> file.data.metadata.generated_at[2]],
     results  |-> [i \in 1..Len(file.data.results) |->
                      JsonDecodeDict(file.data.results[i])]]

---------------------------------------------------------------------------
(* Writing the primary output files.                                       *)

\* the collector's results directory (the default of __init__)
ResultsDir == "results"

\* how the write of an output file goes: it succeeds, open() raises OSError,
\* or json.dump raises after the file was opened (and truncated)
WriteOutcomes == {"ok", "open", "json_dump"}

WritePlan == <<"open", "json_dump", "print">>

\* faulty variant: the write's error is caught and the path returned anyway
SaveToJsonCatching(ms, filename, now, io) ==
    LET name == IF filename = None
                THEN "benchmark_results_" \o Strftime(now) \o ".json"
                ELSE filename[1]
        events == RunPlan(WritePlan, io)
    IN  [events   |-> events,
         exc      |-> FALSE,
         name     |-> name,
         returned |-> <<ResultsDir \o "/" \o name>>,
         data     |-> SaveToJsonData(ms, now)]

\* MetricsCollector.save_to_json(filename): [events, exc, name, returned, data]
SaveToJson(ms, filename, now, io) ==
    LET name == IF filename = None
                THEN "benchmark_results_" \o Strftime(now) \o ".json"
                ELSE filename[1]
        events == RunPlan(WritePlan, io)
    IN  [events   |-> events,
         exc      |-> Raised(events),
         name     |-> name,
         returned |-> IF Raised(events) THEN None
                      ELSE <<ResultsDir \o "/" \o name>>,
         data     |-> SaveToJsonData(ms, now)]

\* MetricsCollector.save_summary(filename): [events, exc, name, returned, data]
SaveSummaryCall(ms, filename, now, io) ==
    LET name == IF filename = None
                THEN "benchmark_summary_" \o Strftime(now) \o ".json"
                ELSE filename[1]
        events == RunPlan(WritePlan, io)
    IN  [events   |-> events,
         exc      |-> Raised(events),
         name     |-> name,
         returned |-> IF Raised(events) THEN None
                      ELSE <<ResultsDir \o "/" \o name>>,
         data     |-> BuildSummary(ms)]

\* the directory after `with open(name, 'w') as f: json.dump(data, f)`
FilesAfterWrite(files, r) ==
    IF ~Called(r.events, "open") \/ ~Succeeded(r.events, "open") THEN files
    ELSE (r.name :> [complete |-> Succeeded(r.events, "json_dump"),
                     data     |-> IF Succeeded(r.events, "json_dump")
                                  THEN r.data ELSE <<>>])
         @@ files

---------------------------------------------------------------------------
(* print_summary.                                                          *)

\* one printed line: a heading carries its key, a record line the position
\* of its record in self.metrics
Line(k, key, index) == [kind |-> k, key |-> key, index |-> index]

\* print_summary's grouping key
PrintKey(m) == m.instance_type \o "_" \o m.serving_mode

PrintKeys(ms) == {PrintKey(ms[i]) : i \in 1..Len(ms)}

\* sorted(groups.items()): the keys in increasing str order
RECURSIVE SortedKeys(_)
SortedKeys(keys) ==
    IF keys = {} THEN <<>>
    ELSE LET k == CHOOSE k \in keys : \A o \in keys \ {k} : StrLess(k, o)
         IN  <<k>> \o SortedKeys(keys \ {k})

\* the lines of one group: heading, rule, then its records as they were added
GroupLines(ms, key) ==
    LET members == SelectSeq([i \in 1..Len(ms) |-> i],
                             LAMBDA i : PrintKey(ms[i]) = key)
    IN  <<Line("heading", key, 0), Line("rule", "", 0)>>
        \o [j \in 1..Len(members) |-> Line("record", key, members[j])]

RECURSIVE BodyLines(_, _)
BodyLines(ms, keys) ==
    IF keys = <<>> THEN <<>>
    ELSE GroupLines(ms, Head(keys)) \o BodyLines(ms, Tail(keys))

\* what print_summary prints when no line fails
PrintPlan(ms) ==
    <<Line("rule", "", 0), Line("title", "Benchmark Summary", Len(ms)),
      Line("rule", "", 0)>>
    \o BodyLines(ms, SortedKeys(PrintKeys(ms)))
    \o <<Line("rule", "", 0)>>

\* the record line formats tokens_per_second and time_per_token with :6.2f,
\* which raises TypeError on None
Formattable(m) == m.tokens_per_second # None /\ m.time_per_token # None

\* MetricsCollector.print_summary: [lines, exc]
PrintSummary(ms) ==
    IF ms = <<>>
    THEN [lines |-> <<Line("message", "No metrics collected yet.", 0)>>,
          exc   |-> FALSE]
    ELSE LET plan == PrintPlan(ms)
             bad == {p \in 1..Len(plan) :
                        /\ plan[p].kind = "record"
                        /\ ~Formattable(ms[plan[p].index])}
             k == IF bad = {} THEN 0
                  ELSE CHOOSE p \in bad : \A q \in bad : p <= q
         IN  [lines |-> IF k = 0 THEN plan ELSE SubSeq(plan, 1, k - 1),
              exc   |-> k # 0]

---------------------------------------------------------------------------
(* SpecSession: one MetricsCollector through add_metric, save_to_json,     *)
(* save_summary and print_summary.                                         *)

\* the records handed to add_metric
SessionRuns ==
    { [SampleMetric EXCEPT !.experiment_id = "exp_a",
                           !.total_time = <<2, 1>>,
                           !.actual_output_tokens = 20,
                           !.notes = <<"scenario=short, run=1, warmup=False">>],
      [SampleMetric EXCEPT !.experiment_id = "exp_b",
                           !.instance_type = "g5",
                           !.batch_size = 4,
                           !.enable_prefix_caching = TRUE,
                           !.decode_time = <<9, 5>>,
                           !.first_token_latency = <<1, 2>>,
                           !.actual_output_tokens = 10],
      [SampleMetric EXCEPT !.experiment_id = "exp_c",
                           !.serving_mode = "online",
                           !.total_time = <<1, 2>>,
                           !.actual_output_tokens = 0,
                           !.error = <<"OOM">>] }

\* the file name the session saves its results under
SessionResultsFile == "test_metrics.json"
SessionSummaryFile == "test_summary.json"

\* faulty variant: the record is put in front of the earlier ones
InsertMetricFirst(ms, m) == <<m>> \o ms

\* faulty variant: the record takes the place of the last one added
ReplaceLastMetric(ms, m) ==
    IF ms = <<>> THEN <<m>> ELSE [ms EXCEPT ![Len(ms)] = m]

\* self.metrics.append(metric)
AppendMetric(ms, m) == Append(ms, m)

InitSession ==
    /\ rec = SampleMetric
    /\ calls = 0
    /\ phase = "ready"
    /\ kind = "plain"
    /\ metrics = <<>>
    /\ use_mlflow = FALSE
    /\ mlflow_tracker = FALSE
    /\ remote_runs = <<>>
    /\ tmp_files = {}
    /\ last = [NoLast EXCEPT !.op = "init"]
    /\ summary = <<>>
    /\ IdleRest

\* MetricsCollector.add_metric(m)
SessionAddMetric ==
    /\ Len(metrics) < MaxSessionRecords
    /\ \E m \in SessionRuns :
          LET r == BaseAddMetric(m)
          IN  /\ metrics' = IF Called(r.events, "append")
                            THEN AppendMetric(metrics, r.metric) ELSE metrics
              /\ last' = [NoLast EXCEPT !.op = "add_metric",
                                        !.events = r.events,
                                        !.raised = r.exc,
                                        !.n_before = Len(metrics),
                                        !.id = m.experiment_id,
                                        !.arg = m]
    /\ UNCHANGED <<rec, calls, phase, kind, use_mlflow, mlflow_tracker,
                   remote_runs, tmp_files, summary>>
    /\ UNCHANGED restVars

\* MetricsCollector.save_to_json(SessionResultsFile)
SessionSaveToJson ==
    /\ \E io \in WriteOutcomes :
          LET r == SaveToJson(metrics, <<SessionResultsFile>>, clock, io)
          IN  /\ results_dir' = FilesAfterWrite(results_dir, r)
              /\ last' = [NoLast EXCEPT !.op = "save_to_json",
                                        !.events = r.events,
                                        !.raised = r.exc,
                                        !.n_before = Len(metrics),
                                        !.returned = r.returned]
    /\ UNCHANGED <<rec, calls, phase, kind, metrics, use_mlflow,
                   mlflow_tracker, remote_runs, tmp_files, summary>>
    /\ UNCHANGED droneVars
    /\ UNCHANGED <<stdout, clock, snapshot, pc, main_env_info, env_file,
                   captures>>

\* MetricsCollector.save_summary(SessionSummaryFile)
SessionSaveSummary ==
    /\ \E io \in WriteOutcomes :
          LET r == SaveSummaryCall(metrics, <<SessionSummaryFile>>, clock, io)
          IN  /\ summary' = IF ~Succeeded(r.events, "open") THEN summary
                            ELSE IF Succeeded(r.events, "json_dump")
                            THEN r.data ELSE <<>>
              /\ last' = [NoLast EXCEPT !.op = "save_summary",
                                        !.events = r.events,
                                        !.raised = r.exc,
                                        !.n_before = Len(metrics),
                                        !.returned = r.returned]
    /\ UNCHANGED <<rec, calls, phase, kind, metrics, use_mlflow,
                   mlflow_tracker, remote_runs, tmp_files>>
    /\ UNCHANGED restVars

\* MetricsCollector.print_summary()
SessionPrintSummary ==
    /\ LET r == PrintSummary(metrics)
       IN  /\ stdout' = r.lines
           /\ last' = [NoLast EXCEPT !.op = "print_summary",
                                     !.raised = r.exc,
                                     !.n_before = Len(metrics)]
    /\ UNCHANGED <<rec, calls, phase, kind, metrics, use_mlflow,
                   mlflow_tracker, remote_runs, tmp_files, summary>>
    /\ UNCHANGED droneVars
    /\ UNCHANGED <<results_dir, clock, snapshot, pc, main_env_info, env_file,
                   captures>>

NextSession ==
    \/ SessionAddMetric
    \/ SessionSaveToJson
    \/ SessionSaveSummary
    \/ SessionPrintSummary

SpecSession == InitSession /\ [][NextSession]_vars

(* C11: add_metric appends exactly the given record (with its derived      *)
(* metrics computed) at the end of the sequence, leaves the earlier records *)
(* and their order as they were and writes no file; over every step the    *)
(* sequence only grows, the earlier sequence being a prefix of the later.  *)
C11_AddMetricAppendsOnly ==
    [][/\ Len(metrics) <= Len(metrics')
       /\ SubSeq(metrics', 1, Len(metrics)) = metrics
       /\ last'.op = "add_metric" =>
             /\ metrics' = Append(metrics, ComputeDerivedMetrics(last'.arg))
             /\ results_dir' = results_dir
             /\ summary' = summary
             /\ tmp_files' = tmp_files]_vars

\* a record was appended after an earlier, different one, with files on disk
C11_Witness ==
    /\ last.op = "add_metric"
    /\ Len(metrics) = 2
    /\ metrics[2] = ComputeDerivedMetrics(last.arg)
    /\ metrics[1] # metrics[2]
    /\ SessionResultsFile \in DOMAIN results_dir

(* C12: after save_to_json the file holds to_dict() of every collected     *)
(* record in insertion order and metadata.total_runs is the number of      *)
(* records; loading the file gives as many entries as records and, entry   *)
(* by entry and field by field, the values of the records' to_dict().      *)
C12_SaveToJsonRoundTrip ==
    (last.op = "save_to_json" /\ ~last.raised) =>
        /\ SessionResultsFile \in DOMAIN results_dir
        /\ results_dir[SessionResultsFile].complete
        /\ LET doc == JsonLoad(results_dir[SessionResultsFile])
           IN  /\ doc.metadata.total_runs = Len(metrics)
               /\ Len(doc.results) = Len(metrics)
               /\ \A i \in 1..Len(metrics) :
                     /\ DOMAIN doc.results[i] = DOMAIN ToDict(metrics[i])
                     /\ \A f \in DOMAIN FieldTypes :
                           doc.results[i][f] = ToDict(metrics[i])[f]

\* two records were saved, one with an error text and one without
C12_Witness ==
    /\ last.op = "save_to_json"
    /\ ~last.raised
    /\ Len(metrics) = 2
    /\ metrics[1].error # None
    /\ metrics[2].error = None
    /\ metrics[2].decode_time # None

\* the heading line a printed line stands under (0: none)
HeadingAbove(p) ==
    LET above == {q \in 1..p : stdout[q].kind = "heading"}
    IN  IF above = {} THEN 0 ELSE CHOOSE q \in above : \A o \in above : o <= q

\* the (instance_type, serving_mode) pair of the records of a heading
PairOfKey(key) ==
    LET i == CHOOSE i \in 1..Len(metrics) : PrintKey(metrics[i]) = key
    IN  <<metrics[i].instance_type, metrics[i].serving_mode>>

PairLess(a, b) == StrLess(a[1], b[1]) \/ (a[1] = b[1] /\ StrLess(a[2], b[2]))

(* C13: print_summary prints every record exactly once, under the heading  *)
(* of its (instance_type, serving_mode) pair, the headings in the          *)
(* lexicographic order of the pairs and the records of a heading in        *)
(* insertion order; one heading per pair.                                  *)
C13_RecordsUnderSortedHeadings ==
    (last.op = "print_summary" /\ metrics # <<>>) =>
        /\ \A i \in 1..Len(metrics) :
              LET at == {p \in 1..Len(stdout) :
                            stdout[p].kind = "record" /\ stdout[p].index = i}
              IN  /\ Cardinality(at) = 1
                  /\ \A p \in at :
                        /\ HeadingAbove(p) # 0
                        /\ stdout[HeadingAbove(p)].key = PrintKey(metrics[i])
        /\ \A p, q \in 1..Len(stdout) :
              (p < q /\ stdout[p].kind = "heading"
                     /\ stdout[q].kind = "heading") =>
                  PairLess(PairOfKey(stdout[p].key), PairOfKey(stdout[q].key))
        /\ \A p, q \in 1..Len(stdout) :
              (p < q /\ stdout[p].kind = "record" /\ stdout[q].kind = "record"
                     /\ HeadingAbove(p) = HeadingAbove(q)) =>
                  stdout[p].index < stdout[q].index

(* C15: once a record is in the collector, save_to_json, save_summary,     *)
(* print_summary and add_metric of another record leave every field of it  *)
(* as it was.                                                              *)
C15_RecordsKeepTheirFields ==
    [][last'.op \in {"save_to_json", "save_summary", "print_summary",
                     "add_metric"} =>
          \A i \in 1..Len(metrics) :
              /\ i <= Len(metrics')
              /\ \A f \in DOMAIN FieldTypes : metrics'[i][f] = metrics[i][f]]_vars

\* every operation has run on a collector holding records: the last record
\* was added after a print, and both files have been written
C15_Witness ==
    /\ last.op = "add_metric"
    /\ Len(metrics) = 2
    /\ metrics[1].experiment_id # metrics[2].experiment_id
    /\ stdout # <<>>
    /\ summary # <<>>
    /\ SessionResultsFile \in DOMAIN results_dir

(* C16: when the write of the output file fails in save_to_json or         *)
(* save_summary, the operation raises to its caller and returns no path.   *)
C16_WriteFailurePropagates ==
    (last.op \in {"save_to_json", "save_summary"} /\ Raised(last.events)) =>
        /\ last.raised
        /\ last.returned = None

\* json.dump failed in save_to_json after the file was opened
C16_Witness ==
    /\ last.op = "save_to_json"
    /\ Called(last.events, "json_dump")
    /\ Raised(last.events)
    /\ metrics # <<>>

---------------------------------------------------------------------------
(* SpecRemote: a dual-sink recorder whose sink is enabled, with the remote *)
(* read operations of its tracker.                                         *)

Reverse(seq) == [i \in 1..Len(seq) |-> seq[Len(seq) + 1 - i]]

\* where the tracking server can fail while a record is forwarded
RemoteLogFailPoints == {"none", "start_run", "log_artifact"}

\* where the tracking server can fail while it is read
RemoteReadFailPoints == {"none", "search_runs"}

\* faulty variant: a failed read switches the sink off
GetAllRunsDisablingSink(enabled, runs, fail) ==
    LET events == RunPlan(<<"search_runs">>, fail)
    IN  [events     |-> events,
         exc        |-> Raised(events),
         returned   |-> IF Raised(events) THEN None ELSE Reverse(runs),
         use_mlflow |-> enabled /\ ~Raised(events)]

\* MLflowTracker.get_all_runs: [events, exc, returned, use_mlflow]; the runs
\* come newest first, each by its run name; use_mlflow is the recorder's flag
\* after the call
GetAllRuns(enabled, runs, fail) ==
    LET events == RunPlan(<<"search_runs">>, fail)
    IN  [events     |-> events,
         exc        |-> Raised(events),
         returned   |-> IF Raised(events) THEN None ELSE Reverse(runs),
         use_mlflow |-> enabled]

\* MLflowTracker.compare_runs: [events, exc, returned, use_mlflow]; of the
\* comparison the number of runs is kept
CompareRuns(enabled, runs, fail) ==
    LET r == GetAllRuns(enabled, runs, fail)
    IN  [events     |-> r.events,
         exc        |-> r.exc,
         returned   |-> IF r.exc THEN None
                        ELSE [total_runs |-> Len(r.returned)],
         use_mlflow |-> r.use_mlflow]

InitRemote ==
    /\ rec = SampleMetric
    /\ calls = 0
    /\ phase = "ready"
    /\ kind = "mlflow"
    /\ metrics = <<>>
    /\ use_mlflow = TRUE
    /\ mlflow_tracker = TRUE
    /\ remote_runs = <<>>
    /\ tmp_files = {}
    /\ last = [NoLast EXCEPT !.op = "init"]
    /\ summary = <<>>
    /\ IdleRest

\* MLflowMetricsCollector.add_metric(m, env_info)
RemoteAddMetric ==
    /\ Len(metrics) < MaxSessionRecords
    /\ \E m \in SessionRuns, env_info \in {"None", "snapshot"},
          fail \in RemoteLogFailPoints :
          LET r == MLflowAddMetric(use_mlflow /\ mlflow_tracker, m, env_info,
                                   fail)
          IN  /\ metrics' = IF Called(r.events, "append")
                            THEN AppendMetric(metrics, r.metric) ELSE metrics
              /\ remote_runs' =
                     RemoteRunsAfter(remote_runs, r.events, m.experiment_id)
              /\ tmp_files' =
                     TmpFilesAfter(tmp_files, r.events, m.experiment_id)
              /\ last' = [NoLast EXCEPT !.op = "add_metric",
                                        !.events = r.events,
                                        !.raised = r.exc,
                                        !.n_before = Len(metrics),
                                        !.id = m.experiment_id,
                                        !.env_info = env_info,
                                        !.arg = m]
    /\ UNCHANGED <<rec, calls, phase, kind, use_mlflow, mlflow_tracker,
                   summary>>
    /\ UNCHANGED restVars

\* MetricsCollector.save_to_json(SessionResultsFile), inherited
RemoteSaveToJson ==
    /\ \E io \in WriteOutcomes :
          LET r == SaveToJson(metrics, <<SessionResultsFile>>, clock, io)
          IN  /\ results_dir' = FilesAfterWrite(results_dir, r)
              /\ last' = [NoLast EXCEPT !.op = "save_to_json",
                                        !.events = r.events,
                                        !.raised = r.exc,
                                        !.n_before = Len(metrics),
                                        !.returned = r.returned]
    /\ UNCHANGED <<rec, calls, phase, kind, metrics, use_mlflow,
                   mlflow_tracker, remote_runs, tmp_files, summary>>
    /\ UNCHANGED droneVars
    /\ UNCHANGED <<stdout, clock, snapshot, pc, main_env_info, env_file,
                   captures>>

\* self.mlflow_tracker.get_all_runs()
RemoteGetAllRuns ==
    /\ mlflow_tracker
    /\ \E fail \in RemoteReadFailPoints :
          LET r == GetAllRuns(use_mlflow, remote_runs, fail)
          IN  /\ use_mlflow' = r.use_mlflow
              /\ last' = [NoLast EXCEPT !.op = "get_all_runs",
                                        !.events = r.events,
                                        !.raised = r.exc,
                                        !.n_before = Len(metrics),
                                        !.returned = r.returned]
    /\ UNCHANGED <<rec, calls, phase, kind, metrics, mlflow_tracker,
                   remote_runs, tmp_files, summary>>
    /\ UNCHANGED restVars

\* self.mlflow_tracker.compare_runs()
RemoteCompareRuns ==
    /\ mlflow_tracker
    /\ \E fail \in RemoteReadFailPoints :
          LET r == CompareRuns(use_mlflow, remote_runs, fail)
          IN  /\ use_mlflow' = r.use_mlflow
              /\ last' = [NoLast EXCEPT !.op = "compare_runs",
                                        !.events = r.events,
                                        !.raised = r.exc,
                                        !.n_before = Len(metrics),
                                        !.returned = r.returned]
    /\ UNCHANGED <<rec, calls, phase, kind, metrics, mlflow_tracker,
                   remote_runs, tmp_files, summary>>
    /\ UNCHANGED restVars

NextRemote ==
    \/ RemoteAddMetric
    \/ RemoteSaveToJson
    \/ RemoteGetAllRuns
    \/ RemoteCompareRuns

SpecRemote == InitRemote /\ [][NextRemote]_vars

\* the recorder's local state: its records, its flags and its files
LocalState ==
    <<metrics, use_mlflow, mlflow_tracker, results_dir, summary, tmp_files>>

(* C18: get_all_runs and compare_runs leave the local state as it was: the *)
(* record sequence with every field of every record, the sink-enabled flag *)
(* and the files the collector wrote, whether the call returns or raises.  *)
C18_RemoteReadsKeepLocalState ==
    [][last'.op \in {"get_all_runs", "compare_runs"} =>
          LocalState' = LocalState]_vars

\* a read of the server failed on a recorder that holds records, a results
\* file and a leftover temp file
C18_Witness ==
    /\ last.op \in {"get_all_runs", "compare_runs"}
    /\ last.raised
    /\ use_mlflow
    /\ Len(metrics) = 2
    /\ Len(remote_runs) >= 1
    /\ tmp_files # {}
    /\ SessionResultsFile \in DOMAIN results_dir

---------------------------------------------------------------------------
(* The environment snapshot (src/inference/benchmark/common/env_info.py).  *)
(* A probe is given how its system call goes and returns [value, exc]:     *)
(* the value it returns, or exc when an exception leaves it.               *)

\* open() of a /proc file: it is read, or it does not exist
FileOutcomes == {"ok", "missing_file"}

\* subprocess.run of a tool: exit code 0, tool not installed
\* (FileNotFoundError), exit code # 0, or subprocess.TimeoutExpired
ToolOutcomes == {"ok", "missing_tool", "nonzero", "timeout"}

Packages ==
    {"vllm", "torch", "transformers", "accelerate", "neuronx-cc",
     "torch-neuronx", "neuronx-distributed"}

EnvVars ==
    {"CUDA_VISIBLE_DEVICES", "NEURON_RT_NUM_CORES", "NEURON_COMPILE_CACHE_URL",
     "NEURON_CC_FLAGS", "VLLM_USE_MODELSCOPE", "HF_HOME", "TRANSFORMERS_CACHE"}

\* str(e) of the exception of an outcome
ErrorText(outcome) ==
    CASE outcome = "missing_file" -> "[Errno 2] No such file or directory"
      [] outcome = "missing_tool" -> "[Errno 2] No such file or directory"
      [] outcome = "timeout" -> "Command timed out"
      [] OTHER -> ""

GetCpuInfo(outcome) ==
    IF outcome = "ok"
    THEN [value |-> [model |-> "Intel(R) Xeon(R)", count |-> 4,
                     architecture |-> "x86_64"],
          exc   |-> FALSE]
    ELSE [value |-> [error |-> ErrorText(outcome)], exc |-> FALSE]

GetMemoryInfo(outcome) ==
    IF outcome = "ok"
    THEN [value |-> [MemTotal |-> "16000000 kB", MemAvailable |-> "8000000 kB"],
          exc   |-> FALSE]
    ELSE [value |-> [error |-> ErrorText(outcome)], exc |-> FALSE]

\* faulty variant: only FileNotFoundError is caught, a timeout leaves the probe
GetGpuInfoUncaughtTimeout(outcome) ==
    CASE outcome = "ok" ->
             [value |-> [name |-> "NVIDIA A10G", driver_version |-> "535.0",
                         memory_total |-> "23028 MiB", type |-> "NVIDIA"],
              exc   |-> FALSE]
      [] outcome = "nonzero" ->
             [value |-> [type |-> "Not available", error |-> "stderr"],
              exc   |-> FALSE]
      [] outcome = "missing_tool" ->
             [value |-> [type |-> "nvidia-smi not found"], exc |-> FALSE]
      [] OTHER ->
             [value |-> <<>>, exc |-> TRUE]

GetGpuInfo(outcome) ==
    CASE outcome = "ok" ->
             [value |-> [name |-> "NVIDIA A10G", driver_version |-> "535.0",
                         memory_total |-> "23028 MiB", type |-> "NVIDIA"],
              exc   |-> FALSE]
      [] outcome = "nonzero" ->
             [value |-> [type |-> "Not available", error |-> "stderr"],
              exc   |-> FALSE]
      [] outcome = "missing_tool" ->
             [value |-> [type |-> "nvidia-smi not found"], exc |-> FALSE]
      [] OTHER ->
             [value |-> [type |-> "Error", error |-> ErrorText(outcome)],
              exc   |-> FALSE]

GetNeuronInfo(outcome) ==
    CASE outcome = "ok" ->
             [value |-> [available |-> TRUE, output |-> "neuron-ls output",
                         type |-> "AWS Inferentia/Trainium"],
              exc   |-> FALSE]
      [] outcome = "nonzero" ->
             [value |-> [available |-> FALSE, type |-> "Not available"],
              exc   |-> FALSE]
      [] outcome = "missing_tool" ->
             [value |-> [available |-> FALSE, type |-> "neuron-ls not found"],
              exc   |-> FALSE]
      [] OTHER ->
             [value |-> [available |-> FALSE, error |-> ErrorText(outcome)],
              exc   |-> FALSE]

\* outcomes: package -> how `pip show package` goes
GetPythonPackages(outcomes) ==
    [value |-> [p \in Packages |->
                   CASE outcomes[p] = "ok" -> "1.0.0"
                     [] outcomes[p] = "nonzero" -> "Not installed"
                     [] OTHER -> "Error: " \o ErrorText(outcomes[p])],
     exc   |-> FALSE]

\* environ: the set of the variables that are set
GetEnvironmentVariables(environ) ==
    [value |-> [v \in EnvVars |-> IF v \in environ THEN "1" ELSE "Not set"],
     exc   |-> FALSE]

\* outcome: how the first curl goes; the second one succeeds
GetInstanceMetadata(outcome) ==
    CASE outcome = "ok" ->
             [value |-> [instance_type |-> "g5.xlarge",
                         availability_zone |-> "us-east-1a",
                         provider |-> "AWS EC2"],
              exc   |-> FALSE]
      [] outcome = "nonzero" ->
             [value |-> [provider |-> "Not EC2 or metadata unavailable"],
              exc   |-> FALSE]
      [] OTHER ->
             [value |-> [provider |-> "Unknown", error |-> ErrorText(outcome)],
              exc   |-> FALSE]

\* the keys of the snapshot that come from a probe
ProbeKeys == {"cpu", "memory", "gpu", "neuron", "instance", "python_packages"}

SnapshotKeys ==
    {"timestamp", "platform", "cpu", "memory", "gpu", "neuron", "instance",
     "python_packages", "environment_variables"}

\* the variables set in the process's environment
Environ == {"HF_HOME"}

\* collect_all_info(): [value, exc]; o gives the outcome of each probe
CollectAllInfo(o, now) ==
    LET cpu == GetCpuInfo(o.cpu)
        memory == GetMemoryInfo(o.memory)
        gpu == GetGpuInfo(o.gpu)
        neuron == GetNeuronInfo(o.neuron)
        instance == GetInstanceMetadata(o.instance)
        python_packages == GetPythonPackages(o.python_packages)
        environment_variables == GetEnvironmentVariables(Environ)
    IN  [value |-> [timestamp             |-> IsoFormat(now),
                    platform              |-> [system |-> "Linux",
                                               release |-> "6.1",
                                               version |-> "#1 SMP",
                                               python_version |-> "3.10.12"],
                    cpu                   |-> cpu.value,
                    memory                |-> memory.value,
                    gpu                   |-> gpu.value,
                    neuron                |-> neuron.value,
                    instance              |-> instance.value,
                    python_packages       |-> python_packages.value,
                    environment_variables |-> environment_variables.value],
         exc   |-> \/ cpu.exc \/ memory.exc \/ gpu.exc \/ neuron.exc
                   \/ instance.exc \/ python_packages.exc
                   \/ environment_variables.exc]

---------------------------------------------------------------------------
(* SpecEnv: collect_all_info() called on machines where any combination of *)
(* the probes fails.                                                       *)

\* how the `pip show` calls go: all succeed, one package is not installed,
\* or the neuron packages are not installed and one call times out
PackageOutcomes ==
    { [p \in Packages |-> "ok"],
      [p \in Packages |-> IF p = "vllm" THEN "nonzero" ELSE "ok"],
      [p \in Packages |->
          IF p \in {"neuronx-cc", "torch-neuronx", "neuronx-distributed"}
          THEN "nonzero"
          ELSE IF p = "torch" THEN "timeout" ELSE "ok"] }

\* how the probes of one collect_all_info() call go
ProbeOutcomes ==
    [cpu             : FileOutcomes,
     memory          : FileOutcomes,
     gpu             : ToolOutcomes,
     neuron          : ToolOutcomes \ {"nonzero"},
     instance        : ToolOutcomes \ {"missing_tool"},
     python_packages : PackageOutcomes]

AllOk ==
    [cpu |-> "ok", memory |-> "ok", gpu |-> "ok", neuron |-> "ok",
     instance |-> "ok", python_packages |-> [p \in Packages |-> "ok"]]

InitEnv ==
    /\ rec = SampleMetric
    /\ calls = 0
    /\ IdleCollector
    /\ summary = <<>>
    /\ IdleRest

\* info = collect_all_info()
CallCollectAllInfo ==
    /\ \E o \in ProbeOutcomes :
          LET r == CollectAllInfo(o, clock)
          IN  /\ snapshot' = IF r.exc THEN snapshot ELSE r.value
              /\ last' = [NoLast EXCEPT !.op = "collect_all_info",
                                        !.raised = r.exc,
                                        !.arg = o]
    /\ UNCHANGED <<rec, calls, phase, kind, metrics, use_mlflow,
                   mlflow_tracker, remote_runs, tmp_files, summary>>
    /\ UNCHANGED droneVars
    /\ UNCHANGED <<results_dir, stdout, clock, pc, main_env_info, env_file,
                   captures>>

NextEnv ==
    \/ CallCollectAllInfo

SpecEnv == InitEnv /\ [][NextEnv]_vars

\* the value stands for a failed probe
IsSentinel(value) ==
    \/ "error" \in DOMAIN value
    \/ /\ "type" \in DOMAIN value
       /\ value.type \in {"Not available", "nvidia-smi not found",
                          "neuron-ls not found", "Error"}
    \/ /\ "provider" \in DOMAIN value
       /\ value.provider \in {"Not EC2 or metadata unavailable", "Unknown"}

---------------------------------------------------------------------------
(* save_env_info and create_experiment_id.                                 *)

\* d[key] = v
WithKey(d, key, v) == (key :> v) @@ d

\* save_env_info(output_path, additional_info): [events, exc, snapshot,
\* data]; it takes its own snapshot, whose probes go as o says
SaveEnvInfo(additional_info, o, now, io) ==
    LET r == CollectAllInfo(o, now)
        env_info == IF additional_info # None /\ DOMAIN additional_info # {}
                    THEN WithKey(r.value, "additional_info", additional_info)
                    ELSE r.value
        events == <<Ev("collect_all_info")>> \o RunPlan(WritePlan, io)
    IN  [events   |-> events,
         exc      |-> Raised(events),
         snapshot |-> r.value,
         data     |-> env_info]

\* create_experiment_id(instance_type, serving_mode, scenario) called at now
CreateExperimentId(instance_type, serving_mode, scenario, now) ==
    instance_type \o "_" \o serving_mode \o "_" \o scenario \o "_"
        \o Strftime(now)

---------------------------------------------------------------------------
(* SpecMain: offline_benchmark.main, step by step, while time passes.      *)

DefaultPrompts == [short |-> <<"Hello, how are you today?">>]

\* args: the command line, with or without --no-mlflow
MainArgs(no_mlflow) ==
    [ model                 |-> "Qwen/Qwen3-0.6B-Instruct",
      scenarios             |-> <<"short">>,
      num_runs              |-> NumRuns,
      batch_sizes           |-> <<1, 4>>,
      max_tokens            |-> 128,
      temperature           |-> <<7, 10>>,
      top_p                 |-> <<9, 10>>,
      enable_prefix_caching |-> FALSE,
      test_prefix_caching   |-> FALSE,
      output_dir            |-> ResultsDir,
      no_mlflow             |-> no_mlflow ]

\* what get_instance_type() and detect_hardware_type() returned
MainInstanceType == "g5.xlarge"
MainHardwareType == "gpu"

RECURSIVE Flatten(_)
Flatten(seqs) ==
    IF seqs = <<>> THEN <<>> ELSE Head(seqs) \o Flatten(Tail(seqs))

\* the results main records, in the order of its loops: prefix caching
\* configuration, scenario, batch size, run
MainWork(args) ==
    LET configs == IF args.test_prefix_caching THEN <<FALSE, TRUE>>
                   ELSE <<args.enable_prefix_caching>>
        runs(c, s, b) ==
            [r \in 1..args.num_runs |->
                [enable_prefix_caching |-> c, scenario |-> s, batch_size |-> b,
                 run_index |-> r - 1, is_warmup |-> (r - 1 = 0)]]
        sizes(c, s) ==
            Flatten([i \in 1..Len(args.batch_sizes) |->
                        runs(c, s, args.batch_sizes[i])])
        scenarios(c) ==
            Flatten([i \in 1..Len(args.scenarios) |->
                        sizes(c, args.scenarios[i])])
    IN  Flatten([i \in 1..Len(configs) |-> scenarios(configs[i])])

\* what one run measured: [total_time, actual_input_tokens,
\* actual_output_tokens]
MainMeasurements ==
    { [total_time |-> <<2, 1>>, actual_input_tokens |-> 8,
       actual_output_tokens |-> 20],
      [total_time |-> <<4, 1>>, actual_input_tokens |-> 8,
       actual_output_tokens |-> 20] }

\* what the run of a work item can measure: the warm-up run is the slow one
RunMeasurements(item) ==
    {x \in MainMeasurements : (x.total_time = <<4, 1>>) = item.is_warmup}

\* the record main builds for one result
MainMetric(args, item, result, now) ==
    BenchmarkMetrics(
        [ experiment_id         |-> CreateExperimentId(MainInstanceType,
                                        "offline", item.scenario, now),
          timestamp             |-> IsoFormat(now),
          model_name            |-> args.model,
          instance_type         |-> MainInstanceType,
          hardware_type         |-> MainHardwareType,
          serving_mode          |-> "offline",
          batch_size            |-> item.batch_size,
          input_length          |-> Len(DefaultPrompts[item.scenario][1]),
          max_output_tokens     |-> args.max_tokens,
          enable_prefix_caching |-> item.enable_prefix_caching,
          temperature           |-> args.temperature,
          top_p                 |-> args.top_p,
          total_time            |-> result.total_time,
          actual_input_tokens   |-> result.actual_input_tokens,
          actual_output_tokens  |-> result.actual_output_tokens,
          notes                 |-> <<"scenario=" \o item.scenario \o ", run="
                                      \o ToString(item.run_index)
                                      \o ", warmup=" \o PyBool(item.is_warmup)>> ])

\* how the probes go when main runs
MainProbeOutcomes == {AllOk, [AllOk EXCEPT !.gpu = "timeout"]}

\* the command line of this run; kind is fixed by --no-mlflow
Args == MainArgs(kind = "plain")

InitMain ==
    /\ rec = SampleMetric
    /\ calls = 0
    /\ phase = "new"
    /\ kind \in {"plain", "mlflow"}
    /\ metrics = <<>>
    /\ use_mlflow = FALSE
    /\ mlflow_tracker = FALSE
    /\ remote_runs = <<>>
    /\ tmp_files = {}
    /\ last = NoLast
    /\ summary = <<>>
    /\ results_dir = <<>>
    /\ stdout = <<>>
    /\ clock = 0
    /\ snapshot = <<>>
    /\ pc = "start"
    /\ main_env_info = <<>>
    /\ env_file = <<>>
    /\ captures = 0
    /\ IdleDrone

\* time passes while main runs
MainTick ==
    /\ pc \notin {"done", "crashed"}
    /\ clock < MaxClock
    /\ clock' = clock + 1
    /\ UNCHANGED <<rec, calls, phase, kind, metrics, use_mlflow,
                   mlflow_tracker, remote_runs, tmp_files, last, summary>>
    /\ UNCHANGED droneVars
    /\ UNCHANGED <<results_dir, stdout, snapshot, pc, main_env_info, env_file,
                   captures>>

\* env_info = collect_all_info(); env_info['benchmark_config'] = vars(args)
MainCollectEnvInfo ==
    /\ pc = "start"
    /\ \E o \in MainProbeOutcomes :
          LET r == CollectAllInfo(o, clock)
          IN  /\ snapshot' = r.value
              /\ main_env_info' = WithKey(r.value, "benchmark_config", Args)
              /\ last' = [NoLast EXCEPT !.op = "collect_all_info",
                                        !.raised = r.exc,
                                        !.arg = o]
    /\ captures' = captures + 1
    /\ pc' = "collected"
    /\ UNCHANGED <<rec, calls, phase, kind, metrics, use_mlflow,
                   mlflow_tracker, remote_runs, tmp_files, summary>>
    /\ UNCHANGED droneVars
    /\ UNCHANGED <<results_dir, stdout, clock, env_file>>

\* timestamp = datetime.now().strftime(...);
\* save_env_info(str(output_dir / f"env_info_{timestamp}.json"))
MainSaveEnvInfo ==
    /\ pc = "collected"
    /\ \E o \in MainProbeOutcomes, io \in {"ok", "open"} :
          LET r == SaveEnvInfo(None, o, clock, io)
          IN  /\ snapshot' = r.snapshot
              /\ env_file' =
                     [timestamp |-> Strftime(clock),
                      name      |-> "env_info_" \o Strftime(clock) \o ".json",
                      complete  |-> Succeeded(r.events, "json_dump"),
                      data      |-> IF Succeeded(r.events, "json_dump")
                                    THEN r.data ELSE <<>>]
              /\ pc' = IF r.exc THEN "crashed" ELSE "saved"
              /\ last' = [NoLast EXCEPT !.op = "save_env_info",
                                        !.events = r.events,
                                        !.raised = r.exc,
                                        !.arg = o]
    /\ captures' = captures + 1
    /\ UNCHANGED <<rec, calls, phase, kind, metrics, use_mlflow,
                   mlflow_tracker, remote_runs, tmp_files, summary>>
    /\ UNCHANGED droneVars
    /\ UNCHANGED <<results_dir, stdout, clock, main_env_info>>

\* collector = MLflowMetricsCollector(..., use_mlflow=True) or
\* MetricsCollector(...), with mlflow installed
MainNewCollector ==
    /\ pc = "saved"
    /\ \E exists \in BOOLEAN, fail \in {"none", "MlflowClient"} :
          LET r == MLflowCollectorInit(~Args.no_mlflow, TRUE, exists, fail)
          IN  /\ use_mlflow' = r.use_mlflow
              /\ mlflow_tracker' = r.tracker
              /\ last' = [NoLast EXCEPT !.op = "init", !.events = r.events,
                                        !.raised = r.exc,
                                        !.requested = ~Args.no_mlflow,
                                        !.available = TRUE]
    /\ phase' = "ready"
    /\ pc' = "recording"
    /\ UNCHANGED <<rec, calls, kind, metrics, remote_runs, tmp_files, summary>>
    /\ UNCHANGED droneVars
    /\ UNCHANGED <<results_dir, stdout, clock, snapshot, main_env_info,
                   env_file, captures>>

\* one turn of `for result in results`: create_experiment_id,
\* BenchmarkMetrics(...), collector.add_metric
MainRecordResult ==
    /\ pc = "recording"
    /\ Len(metrics) < Len(MainWork(Args))
    /\ \E result \in RunMeasurements(MainWork(Args)[Len(metrics) + 1]),
          fail \in {"none", "start_run"} :
          LET item == MainWork(Args)[Len(metrics) + 1]
              m == MainMetric(Args, item, result, clock)
              r == IF Args.no_mlflow THEN BaseAddMetric(m)
                   ELSE MLflowAddMetric(use_mlflow /\ mlflow_tracker, m,
                                        "snapshot", fail)
          IN  /\ metrics' = AppendMetric(metrics, r.metric)
              /\ remote_runs' =
                     RemoteRunsAfter(remote_runs, r.events, m.experiment_id)
              /\ tmp_files' =
                     TmpFilesAfter(tmp_files, r.events, m.experiment_id)
              /\ last' = [NoLast EXCEPT !.op = "add_metric",
                                        !.events = r.events,
                                        !.raised = r.exc,
                                        !.n_before = Len(metrics),
                                        !.id = m.experiment_id,
                                        !.env_info = IF Args.no_mlflow
                                                     THEN "None"
                                                     ELSE "snapshot",
                                        !.arg = m]
    /\ UNCHANGED <<rec, calls, phase, kind, use_mlflow, mlflow_tracker,
                   summary>>
    /\ UNCHANGED restVars

\* collector.save_to_json(...); collector.save_summary(...);
\* collector.print_summary()
MainSaveResults ==
    /\ pc = "recording"
    /\ Len(metrics) = Len(MainWork(Args))
    /\ \E io \in {"ok", "open"} :
          LET name == "offline_results_" \o env_file.timestamp \o ".json"
              sname == "offline_summary_" \o env_file.timestamp \o ".json"
              j == SaveToJson(metrics, <<name>>, clock, io)
              s == SaveSummaryCall(metrics, <<sname>>, clock, "ok")
              p == PrintSummary(metrics)
          IN  /\ results_dir' = FilesAfterWrite(results_dir, j)
              /\ summary' = IF j.exc THEN summary ELSE s.data
              /\ stdout' = IF j.exc THEN stdout ELSE p.lines
              /\ pc' = IF j.exc \/ p.exc THEN "crashed" ELSE "done"
              /\ last' = [NoLast EXCEPT !.op = "save_results",
                                        !.events = j.events,
                                        !.raised = j.exc \/ p.exc,
                                        !.n_before = Len(metrics),
                                        !.returned = j.returned]
    /\ UNCHANGED <<rec, calls, phase, kind, metrics, use_mlflow,
                   mlflow_tracker, remote_runs, tmp_files>>
    /\ UNCHANGED droneVars
    /\ UNCHANGED <<clock, snapshot, main_env_info, env_file, captures>>

NextMain ==
    \/ MainTick
    \/ MainCollectEnvInfo
    \/ MainSaveEnvInfo
    \/ MainNewCollector
    \/ MainRecordResult
    \/ MainSaveResults

SpecMain == InitMain /\ [][NextMain]_vars

(* C19: in a session of main the environment snapshot is captured exactly  *)
(* once, and the snapshot that goes to the sink with the records is the    *)
(* one written to the session's env_info file.                             *)
C19_OneSnapshotPerSession ==
    (pc \in {"recording", "done"} /\ remote_runs # <<>>) =>
        /\ captures = 1
        /\ env_file.data = main_env_info

(* C20: two calls of create_experiment_id never return the same ID, so no  *)
(* two records of the driver share an experiment_id.                       *)
C20_ExperimentIdsUnique ==
    \A i, j \in 1..Len(metrics) :
        i # j => metrics[i].experiment_id # metrics[j].experiment_id

---------------------------------------------------------------------------
(* SpecStamp: save_to_json() without a file name, while time passes.       *)

\* the path save_to_json() returns when it is called at `now`
DefaultResultsPath(now) == SaveToJson(<<>>, None, now, "ok").returned[1]

InitStamp ==
    /\ rec = SampleMetric
    /\ calls = 0
    /\ phase = "ready"
    /\ kind = "plain"
    /\ metrics = <<>>
    /\ use_mlflow = FALSE
    /\ mlflow_tracker = FALSE
    /\ remote_runs = <<>>
    /\ tmp_files = {}
    /\ last = [NoLast EXCEPT !.op = "init"]
    /\ summary = <<>>
    /\ IdleRest

\* time passes
StampTick ==
    /\ clock < MaxClock
    /\ clock' = clock + 1
    /\ UNCHANGED <<rec, calls, phase, kind, metrics, use_mlflow,
                   mlflow_tracker, remote_runs, tmp_files, last, summary>>
    /\ UNCHANGED droneVars
    /\ UNCHANGED <<results_dir, stdout, snapshot, pc, main_env_info, env_file,
                   captures>>

\* MetricsCollector.add_metric(m)
StampAddMetric ==
    /\ Len(metrics) < MaxSessionRecords
    /\ \E m \in SessionRuns :
          LET r == BaseAddMetric(m)
          IN  /\ metrics' = AppendMetric(metrics, r.metric)
              /\ last' = [NoLast EXCEPT !.op = "add_metric",
                                        !.events = r.events,
                                        !.raised = r.exc,
                                        !.n_before = Len(metrics),
                                        !.id = m.experiment_id,
                                        !.arg = m]
    /\ UNCHANGED <<rec, calls, phase, kind, use_mlflow, mlflow_tracker,
                   remote_runs, tmp_files, summary>>
    /\ UNCHANGED restVars

\* MetricsCollector.save_to_json(); last.arg is the file that was at the
\* path when the call was made (<<>>: none)
StampSaveToJson ==
    /\ \E io \in WriteOutcomes :
          LET r == SaveToJson(metrics, None, clock, io)
          IN  /\ results_dir' = FilesAfterWrite(results_dir, r)
              /\ last' = [NoLast EXCEPT !.op = "save_to_json",
                                        !.events = r.events,
                                        !.raised = r.exc,
                                        !.n_before = Len(metrics),
                                        !.id = r.name,
                                        !.arg = IF r.name \in DOMAIN results_dir
                                                THEN results_dir[r.name]
                                                ELSE <<>>,
                                        !.returned = r.returned]
    /\ UNCHANGED <<rec, calls, phase, kind, metrics, use_mlflow,
                   mlflow_tracker, remote_runs, tmp_files, summary>>
    /\ UNCHANGED droneVars
    /\ UNCHANGED <<stdout, clock, snapshot, pc, main_env_info, env_file,
                   captures>>

NextStamp ==
    \/ StampTick
    \/ StampAddMetric
    \/ StampSaveToJson

SpecStamp == InitStamp /\ [][NextStamp]_vars

(* C21: the file name save_to_json() chooses depends on the time to the    *)
(* whole second only: calls in the same second get the same path and calls *)
(* in different seconds different paths; a call that finds a file of the   *)
(* same second writes its own document over it, without an error from the  *)
(* file being there, and leaves the other files as they are.               *)
C21_DefaultNamePerSecond ==
    [][last'.op = "save_to_json" /\ last' # last =>
          /\ \A t \in 0..MaxClock :
                (DefaultResultsPath(t) = DefaultResultsPath(clock))
                    <=> (t \div TicksPerSecond = clock \div TicksPerSecond)
          /\ ~last'.raised =>
                /\ last'.returned = <<DefaultResultsPath(clock)>>
                /\ DOMAIN results_dir' = DOMAIN results_dir \cup {last'.id}
                /\ results_dir'[last'.id].complete
                /\ results_dir'[last'.id].data = SaveToJsonData(metrics, clock)
                /\ \A n \in DOMAIN results_dir \ {last'.id} :
                      results_dir'[n] = results_dir[n]
          /\ last'.raised <=> Raised(last'.events)]_vars

\* a second call in the same second replaced the document of the first,
\* and a file of another second is there too
C21_Witness ==
    /\ last.op = "save_to_json"
    /\ ~last.raised
    /\ last.arg # <<>>
    /\ last.arg.complete
    /\ last.arg.data # results_dir[last.id].data
    /\ Cardinality(DOMAIN results_dir) = 2

---------------------------------------------------------------------------
(* Further properties of the session of one collector (SpecSession).       *)

\* to_dict() of m has every declared field, the absent ones as null
HasEveryKey(m) ==
    /\ DOMAIN ToDict(m) = DOMAIN FieldTypes
    /\ \A f \in DOMAIN FieldTypes :
          (FieldTypes[f] \in OptionalTypes /\ m[f] = None) =>
              /\ ToDict(m)[f] = None
              /\ JsonEncodeDict(ToDict(m))[f] = <<"null">>

(* C22: to_dict() of every record, before and after its derived metrics    *)
(* are computed and whichever optional fields are absent, has one key per  *)
(* declared field, an absent optional field being null and not left out.   *)
C22_ToDictKeysComplete ==
    /\ \A i \in 1..Len(metrics) : HasEveryKey(metrics[i])
    /\ last.op = "add_metric" => HasEveryKey(last.arg)

\* the collector holds a record without derived metrics and one without
\* notes and error
C22_Witness ==
    /\ last.op = "add_metric"
    /\ Len(metrics) = 2
    /\ metrics[1].tokens_per_second = None
    /\ metrics[1].error # None
    /\ metrics[2].notes = None
    /\ metrics[2].error = None
    /\ metrics[2].tokens_per_second # None

(* C23: print_summary returns without raising in every state of the        *)
(* collector reached through add_metric, also with records whose           *)
(* tokens_per_second and time_per_token are None; with no records it       *)
(* prints its message and nothing else.                                    *)
C23_PrintSummaryNeverRaises ==
    last.op = "print_summary" =>
        /\ ~last.raised
        /\ metrics = <<>> =>
              stdout = <<Line("message", "No metrics collected yet.", 0)>>

---------------------------------------------------------------------------
(* Further properties of the driver (SpecMain).                            *)

\* the record is the one of a warm-up run (main writes it into the notes)
IsWarmup(m) ==
    LET n == m.notes[1]
    IN  Len(n) >= 11 /\ SubSeq(n, Len(n) - 10, Len(n)) = "warmup=True"

\* the records of a configuration that are not warm-up runs
Measured(key) == SelectSeq(Group(metrics, key), LAMBDA m : ~IsWarmup(m))

(* C24: the warm-up run of each scenario and batch size does not count in  *)
(* the statistics: the count, mean, min and max save_summary reports for a *)
(* configuration are those of its runs of index 1 and above.               *)
C24_WarmupSkipped ==
    (pc = "done" /\ summary # <<>>) =>
        \A key \in DOMAIN summary :
            /\ summary[key].count = Len(Measured(key))
            /\ summary[key].tokens_per_second
                   = Stats(TruthyValues(Measured(key), "tokens_per_second"))
            /\ summary[key].time_per_token_ms
                   = Stats(TruthyValues(Measured(key), "time_per_token"))

---------------------------------------------------------------------------
(* A further property of the dual-sink recorder (SpecRemote).              *)

\* how many elements of the sequence of ids are id
Occurrences(ids, id) == Cardinality({i \in 1..Len(ids) : ids[i] = id})

LocalIds(ms) == [i \in 1..Len(ms) |-> ms[i].experiment_id]

(* C25: the remote runs always belong to records that are in the local     *)
(* sequence: there are never more remote runs than local records (in all   *)
(* and per experiment id), an add_metric call creates at most one remote   *)
(* run, and a record whose forwarding failed is in the local sequence.     *)
C25_RemoteRunsFollowLocal ==
    [][/\ Len(remote_runs') <= Len(metrics')
       /\ \A i \in 1..Len(remote_runs') :
             Occurrences(remote_runs', remote_runs'[i])
                 <= Occurrences(LocalIds(metrics'), remote_runs'[i])
       /\ Len(remote_runs') <= Len(remote_runs) + 1
       /\ SubSeq(remote_runs', 1, Len(remote_runs)) = remote_runs
       /\ (last'.op = "add_metric" /\ Called(last'.events, "print_failure")) =>
             /\ ~last'.raised
             /\ metrics' = Append(metrics, ComputeDerivedMetrics(last'.arg))]_vars

\* one record was forwarded, the next was lost before its run was created
C25_Witness ==
    /\ last.op = "add_metric"
    /\ Called(last.events, "print_failure")
    /\ ~Succeeded(last.events, "start_run")
    /\ Len(metrics) = 2
    /\ Len(remote_runs) = 1
    /\ metrics[2].experiment_id = last.id

---------------------------------------------------------------------------
(* merge_results (src/inference/benchmark/merge_results.py).               *)

\* load_results_file(filepath): [exc, data]; open() raises when the file is
\* not there and json.load when it is not a complete document
LoadResultsFile(files, filepath) ==
    IF filepath \notin DOMAIN files \/ ~files[filepath].complete
    THEN [exc |-> TRUE, data |-> <<>>]
    ELSE [exc  |-> FALSE,
          data |-> IF "results" \in DOMAIN files[filepath].data
                   THEN [results |->
                            [i \in 1..Len(files[filepath].data.results) |->
                                JsonDecodeDict(files[filepath].data.results[i])]]
                   ELSE [metadata |-> <<>>]]

\* data.get('results', [])
GetResults(data) == IF "results" \in DOMAIN data THEN data.results ELSE <<>>

\* faulty variant: the loop ends at the first file that fails to load
RECURSIVE MergeLoopStopping(_, _, _)
MergeLoopStopping(files, result_files, merged) ==
    IF result_files = <<>> THEN merged
    ELSE LET r == LoadResultsFile(files, Head(result_files))
         IN  IF r.exc
             THEN [results |-> merged.results,
                   events  |-> Append(merged.events, EvRaise("load"))]
             ELSE MergeLoopStopping(files, Tail(result_files),
                      [results |-> merged.results \o GetResults(r.data),
                       events  |-> Append(merged.events, Ev("load"))])

\* `for filepath in result_files`: [results, events] after the files
RECURSIVE MergeLoop(_, _, _)
MergeLoop(files, result_files, merged) ==
    IF result_files = <<>> THEN merged
    ELSE LET r == LoadResultsFile(files, Head(result_files))
         IN  MergeLoop(files, Tail(result_files),
                 IF r.exc
                 THEN [results |-> merged.results,
                       events  |-> Append(merged.events, EvRaise("load"))]
                 ELSE [results |-> merged.results \o GetResults(r.data),
                       events  |-> Append(merged.events, Ev("load"))])

\* merge_results(result_files): [events, exc, returned]
MergeResults(files, result_files, now) ==
    LET merged == MergeLoop(files, result_files,
                            [results |-> <<>>, events |-> <<>>])
    IN  [events   |-> merged.events,
         exc      |-> FALSE,        \* except Exception: continue
         returned |-> [metadata |-> [merged_at    |-> IsoFormat(now),
                                     source_files |-> result_files,
                                     total_runs   |-> Len(merged.results)],
                       results  |-> merged.results]]

---------------------------------------------------------------------------
(* SpecMerge: merge_results called on lists of files of a directory in     *)
(* which files are missing, cut short, without results, or complete.       *)

MergeFileNames == {"g5.json", "inf2.json", "old.json"}

\* the record of SessionRuns with the experiment id, as a collector holds it
RunById(id) ==
    ComputeDerivedMetrics(CHOOSE m \in SessionRuns : m.experiment_id = id)

\* what a file of the directory can hold
MergeContents ==
    { [complete |-> FALSE, data |-> <<>>],
      [complete |-> TRUE,
       data     |-> [metadata |-> [total_runs |-> <<"int", 0>>]]],
      [complete |-> TRUE,
       data     |-> SaveToJsonData(<<RunById("exp_a")>>, 0)],
      [complete |-> TRUE,
       data     |-> SaveToJsonData(<<RunById("exp_c"), RunById("exp_b")>>, 0)] }

MergeFileSystems ==
    UNION {[S -> MergeContents] : S \in SUBSET MergeFileNames}

InitMerge ==
    /\ rec = SampleMetric
    /\ calls = 0
    /\ IdleCollector
    /\ summary = <<>>
    /\ results_dir \in MergeFileSystems
    /\ stdout = <<>>
    /\ clock = 0
    /\ snapshot = <<>>
    /\ pc = "idle"
    /\ main_env_info = <<>>
    /\ env_file = <<>>
    /\ captures = 0
    /\ IdleDrone

\* merged_data = merge_results(result_files)
CallMergeResults ==
    /\ \E n \in 0..MaxMergeFiles :
          \E result_files \in [1..n -> MergeFileNames] :
              LET r == MergeResults(results_dir, result_files, clock)
              IN  last' = [NoLast EXCEPT !.op = "merge_results",
                                         !.events = r.events,
                                         !.raised = r.exc,
                                         !.arg = result_files,
                                         !.returned = r.returned]
    /\ UNCHANGED <<rec, calls, phase, kind, metrics, use_mlflow,
                   mlflow_tracker, remote_runs, tmp_files, summary>>
    /\ UNCHANGED restVars

NextMerge ==
    \/ CallMergeResults

SpecMerge == InitMerge /\ [][NextMerge]_vars

\* the file can be opened and parsed
Loadable(filepath) ==
    filepath \in DOMAIN results_dir /\ results_dir[filepath].complete

\* the entries of the results list of a loadable file
EntriesOfFile(filepath) ==
    IF "results" \in DOMAIN results_dir[filepath].data
    THEN JsonLoad(results_dir[filepath]).results
    ELSE <<>>

(* C26: merge_results never raises; its results list is the concatenation, *)
(* in the order of the file list, of the results lists of the files that   *)
(* load, a file that cannot be read or parsed contributing nothing, and    *)
(* metadata.total_runs is the length of that list.                         *)
C26_MergeConcatenatesLoadable ==
    last.op = "merge_results" =>
        /\ ~last.raised
        /\ last.returned.results =
               Flatten([i \in 1..Len(last.arg) |->
                           IF Loadable(last.arg[i])
                           THEN EntriesOfFile(last.arg[i]) ELSE <<>>])
        /\ last.returned.metadata.total_runs = Len(last.returned.results)

\* a file that does not load stands before one that does
C26_Witness ==
    /\ last.op = "merge_results"
    /\ Len(last.arg) = 2
    /\ ~Loadable(last.arg[1])
    /\ Loadable(last.arg[2])
    /\ Len(last.returned.results) = 2

---------------------------------------------------------------------------
(* WaypointController                                                      *)
(* (src/robotics/drone/week1-isaac-pegasus/src/waypoint_controller.py).    *)
(* Coordinates are integers in units of a quarter of a metre, so that      *)
(* squared distances are exact; a waypoint is a record of the fields of    *)
(* the Waypoint dataclass.                                                 *)

\* Waypoint.tolerance: 0.5 m, in quarters of a metre
DefaultTolerance == 2

\* class FlightMode
FlightMode == {"IDLE", "TAKEOFF", "WAYPOINT", "LAND", "EMERGENCY"}

\* Waypoint(x, y, z, description)
Waypoint(x, y, z, description) ==
    [x |-> x, y |-> y, z |-> z, description |-> description,
     tolerance |-> DefaultTolerance]

\* the square of Waypoint.distance_to(position)
DistanceSquared(wp, position) ==
    LET dx == wp.x - position[1]
        dy == wp.y - position[2]
        dz == wp.z - position[3]
    IN  dx * dx + dy * dy + dz * dz

\* Waypoint.is_reached(position): distance < tolerance, both non-negative
IsReached(wp, position) ==
    DistanceSquared(wp, position) < wp.tolerance * wp.tolerance

\* faulty variant: past the end of the list the last waypoint is the target
GetCurrentWaypointOrLast(wps, idx) ==
    IF idx < Len(wps) THEN <<wps[idx + 1]>>
    ELSE IF wps # <<>> THEN <<wps[Len(wps)]>> ELSE None

\* get_current_waypoint(): <<wp>>, or None past the end of the list
GetCurrentWaypoint(wps, idx) ==
    IF idx < Len(wps) THEN <<wps[idx + 1]>> ELSE None

\* faulty variant: the index is not set back
StartMissionKeepingIndex(wps, idx, mode) ==
    IF wps = <<>>
    THEN [returned |-> FALSE, current_waypoint_idx |-> idx,
          flight_mode |-> mode]
    ELSE [returned |-> TRUE, current_waypoint_idx |-> idx,
          flight_mode |-> "WAYPOINT"]

\* start_mission(): [returned, current_waypoint_idx, flight_mode]
StartMission(wps, idx, mode) ==
    IF wps = <<>>
    THEN [returned |-> FALSE, current_waypoint_idx |-> idx,
          flight_mode |-> mode]
    ELSE [returned |-> TRUE, current_waypoint_idx |-> 0,
          flight_mode |-> "WAYPOINT"]

\* faulty variant: the mode is left alone when the last waypoint is reached
CheckWaypointReachedStayingInMode(wps, idx, mode, position) ==
    LET current_wp == GetCurrentWaypoint(wps, idx)
    IN  IF current_wp = None
        THEN [returned |-> FALSE, current_waypoint_idx |-> idx,
              flight_mode |-> mode]
        ELSE IF IsReached(current_wp[1], position)
        THEN [returned |-> TRUE, current_waypoint_idx |-> idx + 1,
              flight_mode |-> mode]
        ELSE [returned |-> FALSE, current_waypoint_idx |-> idx,
              flight_mode |-> mode]

\* check_waypoint_reached(): [returned, current_waypoint_idx, flight_mode]
CheckWaypointReached(wps, idx, mode, position) ==
    LET current_wp == GetCurrentWaypoint(wps, idx)
    IN  IF current_wp = None
        THEN [returned |-> FALSE, current_waypoint_idx |-> idx,
              flight_mode |-> mode]
        ELSE IF IsReached(current_wp[1], position)
        THEN [returned |-> TRUE, current_waypoint_idx |-> idx + 1,
              flight_mode |-> IF idx + 1 >= Len(wps) THEN "IDLE" ELSE mode]
        ELSE [returned |-> FALSE, current_waypoint_idx |-> idx,
              flight_mode |-> mode]

\* get_mission_progress(), a rational
GetMissionProgress(wps, idx) ==
    IF wps = <<>> THEN <<0, 1>> ELSE Rat(idx, Len(wps))

---------------------------------------------------------------------------
(* SpecWaypoint: a WaypointController driven through its methods.          *)

\* the positions the drone reports and the waypoints are placed at: the
\* origin, 0.25 m and 0.5 m from it, and a point far away
Positions == {<<0, 0, 0>>, <<1, 0, 0>>, <<2, 0, 0>>, <<8, 0, 4>>}

\* the state outside the WaypointController, but for `last`
benchVars == <<rec, calls, phase, kind, metrics, use_mlflow, mlflow_tracker,
               remote_runs, tmp_files, summary, results_dir, stdout, clock,
               snapshot, pc, main_env_info, env_file, captures>>

InitWaypoint ==
    /\ rec = SampleMetric
    /\ calls = 0
    /\ IdleCollector
    /\ summary = <<>>
    /\ IdleRest

\* add_waypoint(x, y, z)
CallAddWaypoint ==
    /\ Len(waypoints) < MaxWaypoints
    /\ \E p \in Positions :
          /\ waypoints' = Append(waypoints, Waypoint(p[1], p[2], p[3], ""))
          /\ last' = [NoLast EXCEPT !.op = "add_waypoint",
                                    !.n_before = current_waypoint_idx,
                                    !.arg = flight_mode]
    /\ UNCHANGED <<current_waypoint_idx, flight_mode, current_position>>
    /\ UNCHANGED benchVars

\* start_mission()
CallStartMission ==
    /\ LET r == StartMission(waypoints, current_waypoint_idx, flight_mode)
       IN  /\ current_waypoint_idx' = r.current_waypoint_idx
           /\ flight_mode' = r.flight_mode
           /\ last' = [NoLast EXCEPT !.op = "start_mission",
                                     !.n_before = current_waypoint_idx,
                                     !.arg = flight_mode,
                                     !.returned = r.returned]
    /\ UNCHANGED <<waypoints, current_position>>
    /\ UNCHANGED benchVars

\* update_position(position)
CallUpdatePosition ==
    /\ \E position \in Positions :
          /\ current_position' = position
          /\ last' = [NoLast EXCEPT !.op = "update_position",
                                    !.n_before = current_waypoint_idx,
                                    !.arg = flight_mode]
    /\ UNCHANGED <<waypoints, current_waypoint_idx, flight_mode>>
    /\ UNCHANGED benchVars

\* check_waypoint_reached()
CallCheckWaypointReached ==
    /\ LET r == CheckWaypointReached(waypoints, current_waypoint_idx,
                                     flight_mode, current_position)
       IN  /\ current_waypoint_idx' = r.current_waypoint_idx
           /\ flight_mode' = r.flight_mode
           /\ last' = [NoLast EXCEPT !.op = "check_waypoint_reached",
                                     !.n_before = current_waypoint_idx,
                                     !.arg = flight_mode,
                                     !.returned = r.returned]
    /\ UNCHANGED <<waypoints, current_position>>
    /\ UNCHANGED benchVars

\* get_mission_progress()
CallGetMissionProgress ==
    /\ last' = [NoLast EXCEPT !.op = "get_mission_progress",
                              !.n_before = current_waypoint_idx,
                              !.arg = flight_mode,
                              !.returned =
                                  GetMissionProgress(waypoints,
                                                     current_waypoint_idx)]
    /\ UNCHANGED droneVars
    /\ UNCHANGED benchVars

NextWaypoint ==
    \/ CallAddWaypoint
    \/ CallStartMission
    \/ CallUpdatePosition
    \/ CallCheckWaypointReached
    \/ CallGetMissionProgress

SpecWaypoint == InitWaypoint /\ [][NextWaypoint]_vars

\* the step is a call of the method
Calls(op) == last'.op = op /\ last' # last

(* C27: start_mission on an empty waypoint list returns False and leaves   *)
(* flight_mode and current_waypoint_idx as they were; with at least one    *)
(* waypoint it returns True and sets current_waypoint_idx to 0 and         *)
(* flight_mode to WAYPOINT, whatever the index and the mode were.          *)
C27_StartMission ==
    [][Calls("start_mission") =>
          IF waypoints = <<>>
          THEN /\ last'.returned = FALSE
               /\ flight_mode' = flight_mode
               /\ current_waypoint_idx' = current_waypoint_idx
          ELSE /\ last'.returned = TRUE
               /\ current_waypoint_idx' = 0
               /\ flight_mode' = "WAYPOINT"]_vars

\* a mission started again after its first waypoint was passed
C27_Witness ==
    /\ last.op = "start_mission"
    /\ last.returned = TRUE
    /\ last.n_before > 0
    /\ current_waypoint_idx = 0
    /\ flight_mode = "WAYPOINT"

(* C28: in every state 0 <= current_waypoint_idx <= len(waypoints), so     *)
(* get_mission_progress returns a value from 0.0 to 1.0, and one call of   *)
(* check_waypoint_reached raises current_waypoint_idx by at most one.      *)
C28_IndexWithinList ==
    /\ [](/\ 0 <= current_waypoint_idx
          /\ current_waypoint_idx <= Len(waypoints)
          /\ LET progress == GetMissionProgress(waypoints, current_waypoint_idx)
             IN  ~RLess(progress, <<0, 1>>) /\ ~RLess(<<1, 1>>, progress)
          /\ last.op = "get_mission_progress" =>
                ~RLess(last.returned, <<0, 1>>) /\ ~RLess(<<1, 1>>, last.returned))
    /\ [][Calls("check_waypoint_reached") =>
             current_waypoint_idx' <= current_waypoint_idx + 1]_vars

\* check_waypoint_reached called after the last waypoint was passed
C28_Witness ==
    /\ last.op = "check_waypoint_reached"
    /\ waypoints # <<>>
    /\ last.n_before = Len(waypoints)
    /\ current_waypoint_idx = Len(waypoints)

(* C29: in every state flight_mode = WAYPOINT implies                      *)
(* current_waypoint_idx < len(waypoints); the only modes are IDLE and      *)
(* WAYPOINT; a check_waypoint_reached call that moves the index to         *)
(* len(waypoints) leaves the mode IDLE, and a check_waypoint_reached call  *)
(* that changes the mode is such a call.                                   *)
C29_WaypointModeHasTarget ==
    /\ [](/\ flight_mode = "WAYPOINT" =>
                current_waypoint_idx < Len(waypoints)
          /\ flight_mode \in {"IDLE", "WAYPOINT"})
    /\ [][Calls("check_waypoint_reached") =>
             LET completes == /\ current_waypoint_idx' # current_waypoint_idx
                              /\ current_waypoint_idx' = Len(waypoints')
             IN  /\ completes => flight_mode' = "IDLE"
                 /\ flight_mode' # flight_mode =>
                       flight_mode' = "IDLE" /\ completes]_vars

\* the call that reaches the last waypoint of a running mission
C29_Witness ==
    /\ last.op = "check_waypoint_reached"
    /\ last.arg = "WAYPOINT"
    /\ last.returned = TRUE
    /\ flight_mode = "IDLE"
    /\ current_waypoint_idx = Len(waypoints)
    /\ last.n_before = Len(waypoints) - 1

(* C30: a check_waypoint_reached call made while flight_mode is not        *)
(* WAYPOINT leaves current_waypoint_idx as it was.                         *)
C30_IndexMovesOnlyInMission ==
    [][Calls("check_waypoint_reached") /\ flight_mode # "WAYPOINT" =>
          current_waypoint_idx' = current_waypoint_idx]_vars

====
